---- MODULE Spec2Model ----
(***************************************************************************)
(* Model of foundry_module_fetch.py: URL classification, the per-service   *)
(* link parsers, and the download exchanges of one invocation.             *)
(*                                                                         *)
(* Python str values are TLA+ strings; TLC evaluates Len, \o, SubSeq, Head *)
(* and Tail on them, so every parser below works character by character    *)
(* on the same text the program sees.  Optional[T] is a tuple: <<>> is     *)
(* None and <<v>> is the value v.  A dict is a record with the dict's keys. *)
(***************************************************************************)
EXTENDS Integers, Sequences, FiniteSets, TLC

---------------------------------------------------------------------------
(* Python str primitives                                                   *)

None == <<>>
Some(v) == <<v>>

Ch(s, i) == SubSeq(s, i, i)

Min(S) == CHOOSE m \in S : \A n \in S : m <= n

StartsWith(s, p) == Len(p) <= Len(s) /\ SubSeq(s, 1, Len(p)) = p

EndsWith(s, p) == Len(p) <= Len(s) /\ SubSeq(s, Len(s) - Len(p) + 1, Len(s)) = p

\* str.find(sub, start) with 1-based positions: the first position >= start
\* where sub occurs, 0 when there is none.
FindFrom(s, sub, start) ==
    LET I == {i \in start..(Len(s) - Len(sub) + 1) : SubSeq(s, i, i + Len(sub) - 1) = sub}
    IN IF I = {} THEN 0 ELSE Min(I)

Find(s, sub) == FindFrom(s, sub, 1)

Contains(s, sub) == Find(s, sub) > 0

From(s, i) == SubSeq(s, i, Len(s))

UpperChars == "ABCDEFGHIJKLMNOPQRSTUVWXYZ"
LowerChars == "abcdefghijklmnopqrstuvwxyz"
DigitChars == "0123456789"

InChars(c, chars) == \E i \in 1..Len(chars) : Ch(chars, i) = c

LowerCh(c) ==
    IF InChars(c, UpperChars) THEN Ch(LowerChars, Find(UpperChars, c)) ELSE c

RECURSIVE Lower(_)
Lower(s) ==
    IF s = "" THEN ""
    ELSE IF Len(s) = 1 THEN LowerCh(s)
    ELSE Lower(SubSeq(s, 1, Len(s) \div 2)) \o Lower(SubSeq(s, Len(s) \div 2 + 1, Len(s)))

\* str.split(sep) for a one-character sep: the pieces, empty ones included.
RECURSIVE Split(_, _)
Split(s, sep) ==
    LET i == Find(s, sep)
    IN IF i = 0 THEN <<s>>
       ELSE <<SubSeq(s, 1, i - 1)>> \o Split(From(s, i + 1), sep)

\* str.split(sep, 1)
Split1(s, sep) ==
    LET i == Find(s, sep)
    IN IF i = 0 THEN <<s>> ELSE <<SubSeq(s, 1, i - 1), From(s, i + Len(sep))>>

\* [part for part in s.split("/") if part]
NonEmpty(parts) == SelectSeq(parts, LAMBDA p : p # "")

RECURSIVE LStrip(_, _)
LStrip(s, c) == IF s # "" /\ Head(s) = c THEN LStrip(Tail(s), c) ELSE s

\* str.isdigit() on ASCII text
IsDigit(s) == s # "" /\ \A i \in 1..Len(s) : InChars(Ch(s, i), DigitChars)

\* str.replace(old, new)
RECURSIVE Replace(_, _, _)
Replace(s, old, new) ==
    LET i == Find(s, old)
    IN IF i = 0 THEN s
       ELSE SubSeq(s, 1, i - 1) \o new \o Replace(From(s, i + Len(old)), old, new)

\* The longest prefix of s made of characters of chars (a regular
\* expression's greedy class [chars]+), and of characters not in chars
\* (the class [^chars]+).
RECURSIVE TakeIn(_, _)
TakeIn(s, chars) ==
    IF s # "" /\ InChars(Head(s), chars) THEN Head(s) \o TakeIn(Tail(s), chars) ELSE ""

RECURSIVE TakeNotIn(_, _)
TakeNotIn(s, chars) ==
    IF s # "" /\ ~InChars(Head(s), chars) THEN Head(s) \o TakeNotIn(Tail(s), chars) ELSE ""

\* int(s) for a string of ASCII digits.  A Python int has no width, and the
\* ids of this program exceed 32 bits, so an int is kept as its decimal
\* numeral: the digits without their leading zeros.
RECURSIVE IntOf(_)
IntOf(s) == IF Len(s) > 1 /\ Head(s) = "0" THEN IntOf(Tail(s)) ELSE s

\* A dict value that is an int or a str, told apart as Python tells them.
PyInt(numeral) == <<"int", numeral>>
PyStr(s) == <<"str", s>>

---------------------------------------------------------------------------
(* urllib.parse                                                            *)

SchemeChars == LowerChars \o UpperChars \o DigitChars \o "+-."

\* _splitnetloc(url, 2): the netloc ends at the first of "/", "?", "#".
NetlocEnd(u) ==
    LET D == {FindFrom(u, c, 3) : c \in {"/", "?", "#"}} \ {0}
    IN IF D = {} THEN Len(u) + 1 ELSE Min(D)

\* urlsplit, step by step.  Each step hands what it found to the next one.
\* The place of the ":" that ends a scheme, 0 when url has no scheme.
SchemeEnd(url) ==
    LET i == Find(url, ":")
    IN IF /\ i > 1
          /\ InChars(Head(url), LowerChars \o UpperChars)
          /\ \A k \in 1..(i - 1) : InChars(Ch(url, k), SchemeChars)
       THEN i ELSE 0

MakeParse(scheme, netloc, q, fragment) ==
    [scheme |-> scheme, netloc |-> netloc, path |-> q[1],
     query |-> IF Len(q) = 2 THEN q[2] ELSE "", fragment |-> fragment]

SplitQuery(scheme, netloc, f) ==
    MakeParse(scheme, netloc, Split1(f[1], "?"), IF Len(f) = 2 THEN f[2] ELSE "")

SplitNetloc(scheme, u, end) ==
    IF StartsWith(u, "//")
    THEN SplitQuery(scheme, SubSeq(u, 3, end - 1), Split1(From(u, end), "#"))
    ELSE SplitQuery(scheme, "", Split1(u, "#"))

SplitScheme(scheme, u) == SplitNetloc(scheme, u, NetlocEnd(u))

SplitAt(url, i) ==
    IF i > 0 THEN SplitScheme(Lower(SubSeq(url, 1, i - 1)), From(url, i + 1))
    ELSE SplitScheme("", url)

urlparse(url) == SplitAt(url, SchemeEnd(url))

\* urllib.parse.uses_netloc (the empty scheme left out: geturl tests it
\* only for a scheme that is not empty)
UsesNetloc ==
    {"ftp", "http", "gopher", "nntp", "telnet", "imap", "wais", "file", "mms",
     "https", "shttp", "snews", "prospero", "rtsp", "rtsps", "rtspu", "rsync",
     "svn", "svn+ssh", "sftp", "nfs", "git", "git+ssh", "ws", "wss"}

\* ParseResult.geturl() / urlunsplit
geturl(p) ==
    LET a == IF p.netloc # "" \/ (p.scheme \in UsesNetloc /\ ~StartsWith(p.path, "//"))
             THEN "//" \o p.netloc
                  \o (IF p.path # "" /\ Head(p.path) # "/" THEN "/" ELSE "") \o p.path
             ELSE p.path
        b == IF p.scheme # "" THEN p.scheme \o ":" \o a ELSE a
        c == IF p.query # "" THEN b \o "?" \o p.query ELSE b
    IN IF p.fragment # "" THEN c \o "#" \o p.fragment ELSE c

---------------------------------------------------------------------------
(* URL classification                                                      *)

TELEGRAM_HOSTS == <<"t.me", "telegram.me", "telegram.dog">>

GoogleDriveHost(host) ==
    EndsWith(host, "drive.google.com") \/ EndsWith(host, "docs.google.com")

is_google_drive(url) == GoogleDriveHost(Lower(urlparse(url).netloc))

MegaHost(host) == EndsWith(host, "mega.nz") \/ EndsWith(host, "mega.co.nz")

is_mega(url) == MegaHost(Lower(urlparse(url).netloc))

DropboxHost(host) ==
    EndsWith(host, "dropbox.com") \/ EndsWith(host, "dropboxusercontent.com")

is_dropbox(url) == DropboxHost(Lower(urlparse(url).netloc))

\* the loop of normalize_telegram_url over TELEGRAM_HOSTS
TelegramRelative(url, path) ==
    IF \E k \in 1..Len(TELEGRAM_HOSTS) : StartsWith(path, TELEGRAM_HOSTS[k] \o "/")
    THEN "https://" \o path
    ELSE url

NormalizeTelegramParsed(url, parsed) ==
    IF parsed.scheme # "" /\ parsed.netloc # "" THEN url
    ELSE TelegramRelative(url, LStrip(parsed.path, "/"))

normalize_telegram_url(url) == NormalizeTelegramParsed(url, urlparse(url))

TelegramHost(host) ==
    \/ \E k \in 1..Len(TELEGRAM_HOSTS) : host = TELEGRAM_HOSTS[k]
    \/ \E k \in 1..Len(TELEGRAM_HOSTS) : EndsWith(host, "." \o TELEGRAM_HOSTS[k])

is_telegram(url) ==
    TelegramHost(Lower(urlparse(normalize_telegram_url(url)).netloc))

---------------------------------------------------------------------------
(* urllib.parse.unquote and parse_qs                                       *)

\* The printable ASCII characters in code order, from 0x20 (space) to 0x7E.
\* A TLA+ string cannot hold the grave accent (0x60): its place holds a
\* space and unquote leaves the escape %60 as it is.
AsciiPrintable ==
    " !\"#$%&'()*+,-./0123456789:;<=>?@ABCDEFGHIJKLMNOPQRSTUVWXYZ[\\]^_ abcdefghijklmnopqrstuvwxyz{|}~"

HexChars == "0123456789abcdef"

HexVal(c) == Find(HexChars, LowerCh(c)) - 1

IsHex(c) == InChars(LowerCh(c), HexChars)

\* unquote: every %XX escape of a printable ASCII character is replaced by
\* the character; anything else is kept as it is.
RECURSIVE unquote(_)
unquote(s) ==
    IF s = "" THEN ""
    ELSE IF /\ Head(s) = "%"
            /\ Len(s) >= 3
            /\ IsHex(Ch(s, 2)) /\ IsHex(Ch(s, 3))
            /\ HexVal(Ch(s, 2)) * 16 + HexVal(Ch(s, 3)) \in (32..126) \ {96}
         THEN Ch(AsciiPrintable, HexVal(Ch(s, 2)) * 16 + HexVal(Ch(s, 3)) - 31)
              \o unquote(From(s, 4))
         ELSE Head(s) \o unquote(Tail(s))

\* parse_qsl(qs): the (name, value) pairs in order; a field without "=" or
\* with a blank value is dropped (keep_blank_values is False).
RECURSIVE QslOf(_)
QslOf(fields) ==
    IF fields = <<>> THEN <<>>
    ELSE LET nv == Split1(Head(fields), "=")
         IN (IF Head(fields) # "" /\ Len(nv) = 2 /\ nv[2] # ""
             THEN <<[name |-> unquote(Replace(nv[1], "+", " ")),
                     value |-> unquote(Replace(nv[2], "+", " "))]>>
             ELSE <<>>)
            \o QslOf(Tail(fields))

parse_qsl(qs) == IF qs = "" THEN <<>> ELSE QslOf(Split(qs, "&"))

\* parse_qs(qs): a dict from name to the list of its values, as the sequence
\* of its items in insertion order (the order dict.items() iterates in).
RECURSIVE QsOf(_, _)
QsOf(pairs, acc) ==
    IF pairs = <<>> THEN acc
    ELSE LET pr == Head(pairs)
             K == {k \in 1..Len(acc) : acc[k].key = pr.name}
         IN QsOf(Tail(pairs),
                 IF K = {}
                 THEN Append(acc, [key |-> pr.name, values |-> <<pr.value>>])
                 ELSE [acc EXCEPT ![Min(K)].values = Append(@, pr.value)])

parse_qs(qs) == QsOf(parse_qsl(qs), <<>>)

HasKey(d, key) == \E k \in 1..Len(d) : d[k].key = key

Lookup(d, key) == d[CHOOSE k \in 1..Len(d) : d[k].key = key].values

\* d[key] = values: an existing key keeps its place, a new one goes last.
SetItem(d, key, values) ==
    IF HasKey(d, key)
    THEN [k \in 1..Len(d) |-> IF d[k].key = key THEN [key |-> key, values |-> values] ELSE d[k]]
    ELSE Append(d, [key |-> key, values |-> values])

\* sep.join(items)
RECURSIVE Join(_, _)
Join(items, sep) ==
    IF items = <<>> THEN ""
    ELSE IF Len(items) = 1 THEN items[1]
    ELSE items[1] \o sep \o Join(Tail(items), sep)

\* re.search(literal + "([class]+)", s).group(1): the leftmost place where
\* literal is followed by a character of the class, then the greedy run.
SearchLitIn(s, lit, chars) ==
    LET I == {i \in 1..(Len(s) - Len(lit)) :
                 /\ SubSeq(s, i, i + Len(lit) - 1) = lit
                 /\ InChars(Ch(s, i + Len(lit)), chars)}
    IN IF I = {} THEN None ELSE Some(TakeIn(From(s, Min(I) + Len(lit)), chars))

\* the same for a negated class "([^class]+)"
SearchLitNotIn(s, lit, chars) ==
    LET I == {i \in 1..(Len(s) - Len(lit)) :
                 /\ SubSeq(s, i, i + Len(lit) - 1) = lit
                 /\ ~InChars(Ch(s, i + Len(lit)), chars)}
    IN IF I = {} THEN None ELSE Some(TakeNotIn(From(s, Min(I) + Len(lit)), chars))

\* pathlib: Path(s).name, the last component ("" when there is none; empty
\* and "." components do not count).
PathName(s) ==
    LET parts == SelectSeq(Split(s, "/"), LAMBDA p : p # "" /\ p # ".")
    IN IF parts = <<>> THEN "" ELSE parts[Len(parts)]

---------------------------------------------------------------------------
(* Link parsers                                                            *)

IdChars == LowerChars \o UpperChars \o DigitChars \o "_-"

\* A slip in the private-chat branch: the message id is read from the
\* segment after the chat id instead of the last segment, and the chat id
\* loses its leading zeros.
TelegramParts_Slip(parts, last) ==
    IF parts[1] = "s"
    THEN IF Len(parts) < 3 THEN None
         ELSE IF ~IsDigit(parts[3]) THEN None
         ELSE Some([peer |-> PyStr(parts[2]), msg_id |-> PyInt(IntOf(parts[3]))])
    ELSE IF parts[1] = "c"
    THEN IF Len(parts) < 3 THEN None
         ELSE IF ~IsDigit(parts[2]) \/ ~IsDigit(last) THEN None
         ELSE Some([peer |-> PyInt("-100" \o IntOf(parts[2])),
                    msg_id |-> PyInt(IntOf(last))])
    ELSE IF Len(parts) < 2 THEN None
    ELSE IF ~IsDigit(last) THEN None
    ELSE Some([peer |-> PyStr(parts[1]), msg_id |-> PyInt(IntOf(last))])

\* parse_telegram_message_url from "parts = ..." on
TelegramParts(parts, last) ==
    IF parts[1] = "s"
    THEN IF Len(parts) < 3 THEN None
         ELSE IF ~IsDigit(last) THEN None
         ELSE Some([peer |-> PyStr(parts[2]), msg_id |-> PyInt(IntOf(last))])
    ELSE IF parts[1] = "c"
    THEN IF Len(parts) < 3 THEN None
         ELSE IF ~IsDigit(parts[2]) \/ ~IsDigit(last) THEN None
         ELSE Some([peer |-> PyInt("-" \o IntOf("100" \o parts[2])),
                    msg_id |-> PyInt(IntOf(last))])
    ELSE IF Len(parts) < 2 THEN None
    ELSE IF ~IsDigit(last) THEN None
    ELSE Some([peer |-> PyStr(parts[1]), msg_id |-> PyInt(IntOf(last))])

TelegramPath(parts) ==
    IF parts = <<>> THEN None ELSE TelegramParts(parts, parts[Len(parts)])

ParseTelegramParsed(parsed) ==
    IF ~TelegramHost(Lower(parsed.netloc)) THEN None
    ELSE TelegramPath(NonEmpty(Split(parsed.path, "/")))

parse_telegram_message_url(url) ==
    ParseTelegramParsed(urlparse(normalize_telegram_url(url)))

\* A slip in the legacy forms: the key is read one token too early.
MegaLegacy_Slip(fragment, tokens, base) ==
    IF StartsWith(fragment, "F!") /\ Len(tokens) >= 3
    THEN IF Len(tokens) >= 4 /\ tokens[4] # ""
         THEN Some([kind |-> "folder_file", folder_id |-> tokens[2],
                    key |-> tokens[3], base |-> base, file_id |-> tokens[4]])
         ELSE Some([kind |-> "folder", folder_id |-> tokens[2],
                    key |-> tokens[3], base |-> base])
    ELSE IF StartsWith(fragment, "!") /\ Len(tokens) >= 3
    THEN Some([kind |-> "file", file_id |-> tokens[2], key |-> tokens[2], base |-> base])
    ELSE None

\* parse_mega_link, the legacy forms: the fragment starts with "F!" or "!"
MegaLegacy(fragment, tokens, base) ==
    IF StartsWith(fragment, "F!") /\ Len(tokens) >= 3
    THEN IF Len(tokens) >= 4 /\ tokens[4] # ""
         THEN Some([kind |-> "folder_file", folder_id |-> tokens[2],
                    key |-> tokens[3], base |-> base, file_id |-> tokens[4]])
         ELSE Some([kind |-> "folder", folder_id |-> tokens[2],
                    key |-> tokens[3], base |-> base])
    ELSE IF StartsWith(fragment, "!") /\ Len(tokens) >= 3
    THEN Some([kind |-> "file", file_id |-> tokens[2], key |-> tokens[3], base |-> base])
    ELSE None

\* parse_mega_link, the path "/folder/<id>": cut is where "/file/" is in
\* the fragment (0: nowhere), and fragment.partition("/file/") cuts there.
MegaFolderPath(folder_id, fragment, cut, base) ==
    IF cut > 0
    THEN Some([kind |-> "folder_file", folder_id |-> folder_id,
               file_id |-> From(fragment, cut + 6),
               key |-> SubSeq(fragment, 1, cut - 1), base |-> base])
    ELSE Some([kind |-> "folder", folder_id |-> folder_id,
               key |-> fragment, base |-> base])

MegaInfo(parts, fragment, base) ==
    IF Len(parts) >= 2 /\ Lower(parts[1]) = "file"
    THEN Some([kind |-> "file", file_id |-> parts[2], key |-> fragment, base |-> base])
    ELSE IF Len(parts) >= 2 /\ Lower(parts[1]) = "folder"
    THEN MegaFolderPath(parts[2], fragment, Find(fragment, "/file/"), base)
    ELSE MegaLegacy(fragment, Split(fragment, "!"), base)

ParseMegaParsed(parsed) ==
    MegaInfo(NonEmpty(Split(parsed.path, "/")), parsed.fragment,
             (IF parsed.scheme # "" THEN parsed.scheme ELSE "https")
                 \o "://" \o parsed.netloc)

parse_mega_link(url) ==
    IF ~is_mega(url) THEN None ELSE ParseMegaParsed(urlparse(url))

\* dict.get(field, "")
Get(d, field) == IF field \in DOMAIN d THEN d[field] ELSE ""

MegatoolsOf(url, d) ==
    IF d.kind = "file" /\ Get(d, "file_id") # "" /\ Get(d, "key") # ""
    THEN [url |-> d.base \o "/#!" \o d.file_id \o "!" \o d.key, folder_fallback |-> FALSE]
    ELSE IF d.kind = "folder" /\ Get(d, "folder_id") # "" /\ Get(d, "key") # ""
    THEN [url |-> d.base \o "/#F!" \o d.folder_id \o "!" \o d.key, folder_fallback |-> FALSE]
    ELSE IF d.kind = "folder_file" /\ Get(d, "folder_id") # "" /\ Get(d, "key") # ""
    THEN [url |-> d.base \o "/#F!" \o d.folder_id \o "!" \o d.key, folder_fallback |-> TRUE]
    ELSE [url |-> url, folder_fallback |-> FALSE]

MegatoolsInfo(url, info) ==
    IF info = None THEN [url |-> url, folder_fallback |-> FALSE]
    ELSE MegatoolsOf(url, info[1])

\* mega_url_for_megatools(url): the pair (url for megadl, folder_fallback)
mega_url_for_megatools(url) == MegatoolsInfo(url, parse_mega_link(url))

\* "&".join(f"{key}={value[0]}" for key, value in params.items())
RECURSIVE FirstValues(_)
FirstValues(d) ==
    IF d = <<>> THEN <<>>
    ELSE <<Head(d).key \o "=" \o Head(d).values[1]>> \o FirstValues(Tail(d))

DropboxQuery(query) ==
    Join(FirstValues(SetItem(parse_qs(query), "dl", <<"1">>)), "&")

NormalizeDropboxParsed(url, parsed) ==
    IF EndsWith(Lower(parsed.netloc), "dropboxusercontent.com") THEN url
    ELSE geturl([parsed EXCEPT !.query = DropboxQuery(parsed.query)])

normalize_dropbox_url(url) ==
    IF ~is_dropbox(url) THEN url ELSE NormalizeDropboxParsed(url, urlparse(url))

FirstMatch(m1, m2) == IF m1 # None THEN m1 ELSE m2

ExtractIdParams(url, parsed, params) ==
    IF parsed.query # "" /\ HasKey(params, "id") THEN Some(Lookup(params, "id")[1])
    ELSE FirstMatch(SearchLitIn(parsed.path, "/file/d/", IdChars),
                    SearchLitIn(url, "/uc?export=download&id=", IdChars))

ExtractIdParsed(url, parsed) == ExtractIdParams(url, parsed, parse_qs(parsed.query))

extract_gdrive_file_id(url) == ExtractIdParsed(url, urlparse(url))

\* The second pattern of filename_from_cd: the text filename=, an optional
\* double quote, then one or more characters other than a double quote and
\* a semicolon.  The optional quote is taken when a name character follows.
FilenameQuoted(cd, i) ==
    /\ i + 10 <= Len(cd)
    /\ Ch(cd, i + 9) = "\""
    /\ ~InChars(Ch(cd, i + 10), "\";")

FilenameBare(cd, i) == i + 9 <= Len(cd) /\ ~InChars(Ch(cd, i + 9), "\";")

FilenameAt(cd, I) ==
    IF I = {} THEN None
    ELSE Some(TakeNotIn(From(cd, IF FilenameQuoted(cd, Min(I)) THEN Min(I) + 10
                                 ELSE Min(I) + 9), "\";"))

SearchFilename(cd) ==
    FilenameAt(cd, {i \in 1..(Len(cd) - 9) :
                       /\ SubSeq(cd, i, i + 8) = "filename="
                       /\ (FilenameQuoted(cd, i) \/ FilenameBare(cd, i))})

\* A slip in the order: the plain parameter is looked for first.
FilenameStar_Slip(cd, m1) ==
    IF SearchFilename(cd) # None THEN SearchFilename(cd)
    ELSE IF m1 # None THEN Some(unquote(m1[1]))
    ELSE None

FilenameStar(cd, m1) ==
    IF m1 # None THEN Some(unquote(m1[1])) ELSE SearchFilename(cd)

\* filename_from_cd(content_disposition); a missing header is "".
filename_from_cd(content_disposition) ==
    IF content_disposition = "" THEN None
    ELSE FilenameStar(content_disposition,
                      SearchLitNotIn(content_disposition, "filename*=UTF-8''", ";"))

UnquotedName(name) == IF name # "" THEN Some(unquote(name)) ELSE None

filename_from_url(url) == UnquotedName(PathName(urlparse(url).path))

---------------------------------------------------------------------------
(* The page parsers of the cloud-drive exchange                            *)

WsChars == " \t\n\r\f"

\* The first position at or after i of s that holds no white space
RECURSIVE SkipWs(_, _)
SkipWs(s, i) == IF i <= Len(s) /\ InChars(Ch(s, i), WsChars) THEN SkipWs(s, i + 1) ELSE i

LitAt(s, lit, i) ==
    i + Len(lit) - 1 <= Len(s) /\ SubSeq(s, i, i + Len(lit) - 1) = lit

\* re.match at position i of a pattern made of literals, white space runs
\* (\s* is [t |-> "ws", min |-> 0], \s+ has min 1) and one group ([^c]+ is
\* [t |-> "grp", stop |-> c]).  No item of the patterns below can give back
\* what it took: a literal after white space starts with no white space, and
\* the literal after the group starts with the group's stop character.
\* Returns None, or Some(the group).
RECURSIVE MatchAt(_, _, _, _)
MatchAt(s, i, pat, grp) ==
    IF pat = <<>> THEN Some(grp)
    ELSE IF Head(pat).t = "lit"
    THEN IF LitAt(s, Head(pat).v, i)
         THEN MatchAt(s, i + Len(Head(pat).v), Tail(pat), grp)
         ELSE None
    ELSE IF Head(pat).t = "ws"
    THEN IF SkipWs(s, i) - i >= Head(pat).min
         THEN MatchAt(s, SkipWs(s, i), Tail(pat), grp)
         ELSE None
    ELSE IF TakeNotIn(From(s, i), Head(pat).stop) = "" THEN None
    ELSE MatchAt(s, i + Len(TakeNotIn(From(s, i), Head(pat).stop)), Tail(pat),
                 TakeNotIn(From(s, i), Head(pat).stop))

\* re.search: the match at the leftmost position that has one
MatchPlaces(s, pat) == {i \in 1..Len(s) : MatchAt(s, i, pat, "") # None}

ReSearch(s, pat) ==
    IF MatchPlaces(s, pat) = {} THEN None ELSE MatchAt(s, Min(MatchPlaces(s, pat)), pat, "")

Lit(v) == [t |-> "lit", v |-> v]
Ws(min) == [t |-> "ws", min |-> min]
Grp(stop) == [t |-> "grp", stop |-> stop]

\* the pattern name="<name>"\s+value="([^"]+)"
FieldPattern(name) ==
    <<Lit("name=\"" \o name \o "\""), Ws(1), Lit("value=\""), Grp("\""), Lit("\"")>>

FirstOf3(m1, m2, m3) == IF m1 # None THEN m1 ELSE IF m2 # None THEN m2 ELSE m3

get_confirm_token_from_html(html) ==
    FirstOf3(SearchLitIn(html, "confirm=", IdChars),
             ReSearch(html, FieldPattern("confirm")),
             ReSearch(html, <<Lit("'confirm'"), Ws(0), Lit(":"), Ws(0), Lit("'"),
                              Grp("'"), Lit("'")>>))

JsonUrl(m) ==
    IF m = None THEN None
    ELSE Some(Replace(Replace(Replace(m[1], "\\u003d", "="), "\\u0026", "&"), "\\/", "/"))

HrefUrl(m) ==
    IF m = None THEN None
    ELSE Some("https://drive.google.com" \o Replace("/uc?export=download" \o m[1], "&amp;", "&"))

extract_download_url_from_html(html) ==
    FirstMatch(JsonUrl(ReSearch(html, <<Lit("\"downloadUrl\""), Ws(0), Lit(":"), Ws(0),
                                         Lit("\""), Grp("\""), Lit("\"")>>)),
               HrefUrl(ReSearch(html, <<Lit("href=\"/uc?export=download"), Grp("\""),
                                         Lit("\"")>>)))

Max(S) == CHOOSE x \in S : \A y \in S : y <= x

\* The end of the run [^>]+ that starts at position i: the position of the
\* first ">" at or after i, or one past the end of s
TagEnd(s, i) == IF FindFrom(s, ">", i) = 0 THEN Len(s) + 1 ELSE FindFrom(s, ">", i)

\* The places k where action="([^"]+)" matches after the run [^>]+ that
\* starts at position j, and the places j where id="download-form" matches
\* after the run [^>]+ that starts at position i and one such k follows.
ActionPlaces(s, j) ==
    {k \in (j + 1)..TagEnd(s, j) :
        MatchAt(s, k, <<Lit("action=\""), Grp("\""), Lit("\"")>>, "") # None}

FormIdPlaces(s, i) ==
    {j \in (i + 1)..TagEnd(s, i) :
        /\ LitAt(s, "id=\"download-form\"", j)
        /\ ActionPlaces(s, j + Len("id=\"download-form\"")) # {}}

\* The match of <form[^>]+id="download-form"[^>]+action="([^"]+)" at
\* position i: each run [^>]+ is as long as a match allows.
FormActionAt(s, i) ==
    IF ~LitAt(s, "<form", i) \/ FormIdPlaces(s, i + 5) = {} THEN None
    ELSE MatchAt(s,
                 Max(ActionPlaces(s, Max(FormIdPlaces(s, i + 5)) + Len("id=\"download-form\""))),
                 <<Lit("action=\""), Grp("\""), Lit("\"")>>, "")

FormPlaces(s) == {i \in 1..Len(s) : FormActionAt(s, i) # None}

FormActionSearch(s) == IF FormPlaces(s) = {} THEN None ELSE FormActionAt(s, Min(FormPlaces(s)))

Unescaped(m) == IF m = None THEN None ELSE Some(Replace(m[1], "&amp;", "&"))

extract_gdrive_form_action(html) == Unescaped(FormActionSearch(html))

\* A dict of strings: a sequence of [key, values] in insertion order, values
\* holding the string
RECURSIVE FormParams(_, _)
FormParams(html, names) ==
    IF names = <<>> THEN <<>>
    ELSE IF ReSearch(html, FieldPattern(Head(names))) = None
    THEN FormParams(html, Tail(names))
    ELSE <<[key |-> Head(names), values |-> ReSearch(html, FieldPattern(Head(names)))[1]]>>
         \o FormParams(html, Tail(names))

extract_gdrive_form_params(html) == FormParams(html, <<"confirm", "uuid", "id", "export">>)

\* {key: values[0] for key, values in params.items() if values}
FirstOfEach(d) == [k \in 1..Len(d) |-> [key |-> d[k].key, values |-> d[k].values[1]]]

ActionParams(m) ==
    IF m = None THEN <<>>
    ELSE FirstOfEach(parse_qs(urlparse(Replace(m[1], "&amp;", "&")).query))

extract_gdrive_action_params(html) ==
    ActionParams(ReSearch(html, <<Lit("action=\""), Grp("\""), Lit("\"")>>))

\* dict.update(other)
RECURSIVE Update(_, _)
Update(d, other) ==
    IF other = <<>> THEN d
    ELSE Update(SetItem(d, Head(other).key, Head(other).values), Tail(other))

\* str.strip(chars)
RECURSIVE RStrip(_, _)
RStrip(s, c) ==
    IF s # "" /\ Ch(s, Len(s)) = c THEN RStrip(SubSeq(s, 1, Len(s) - 1), c) ELSE s

\* re.sub of a class run [^chars]+ by "_"
RECURSIVE SubNotIn(_, _)
SubNotIn(s, chars) ==
    IF s = "" THEN ""
    ELSE IF InChars(Head(s), chars) THEN Head(s) \o SubNotIn(Tail(s), chars)
    ELSE "_" \o SubNotIn(From(s, Len(TakeNotIn(s, chars)) + 1), chars)

SafeStem(stripped) == IF stripped = "" THEN "gdrive" ELSE stripped

\* save_debug_html(html, debug_dir, stem): the files of the capture
\* directory afterwards; debug_dir is FALSE when none is configured
save_debug_html(captured, html, debug_dir, stem) ==
    IF ~debug_dir THEN captured
    ELSE captured \cup
         {[name |-> SafeStem(RStrip(LStrip(SubNotIn(stem, IdChars), "_"), "_")) \o ".html",
           text |-> html]}

\* The end of a run of the letter s, and the text with every backslash
\* followed by one or more letters s replaced by a space: what
\* re.sub(r"\\s+", " ", text) does, its pattern being a backslash and s+
RECURSIVE SkipS(_, _)
SkipS(s, i) == IF i <= Len(s) /\ Ch(s, i) = "s" THEN SkipS(s, i + 1) ELSE i

RECURSIVE SubBackslashS(_)
SubBackslashS(s) ==
    IF s = "" THEN ""
    ELSE IF Head(s) = "\\" /\ SkipS(s, 2) > 2 THEN " " \o SubBackslashS(From(s, SkipS(s, 2)))
    ELSE Head(s) \o SubBackslashS(Tail(s))

\* str.strip()
RECURSIVE RStripWs(_)
RStripWs(s) ==
    IF s # "" /\ InChars(Ch(s, Len(s)), WsChars) THEN RStripWs(SubSeq(s, 1, Len(s) - 1)) ELSE s

StripWs(s) == RStripWs(From(s, SkipWs(s, 1)))

TitleBetween(html, i, j) ==
    IF i = 0 \/ j = 0 THEN ""
    ELSE StripWs(SubBackslashS(SubSeq(html, i + 7, j - 1)))

\* extract_html_title(html): "" stands for None (an empty title is None too)
TitleFrom(html, low, i) ==
    TitleBetween(html, i, IF i = 0 THEN 0 ELSE FindFrom(low, "</title>", i + 7))

extract_html_title(html) == TitleFrom(html, Lower(html), Find(Lower(html), "<title>"))

---------------------------------------------------------------------------
(* Inputs of the link parsers: each link is described by the parts it was  *)
(* written from, and LinkUrl writes its text.                              *)

MaxIdLen == 2
MaxFields == 2
MaxSegs == 3

\* All strings of 1..n characters of the set alphabet
RECURSIVE Words(_, _)
Words(alphabet, n) ==
    IF n = 0 THEN {}
    ELSE alphabet \cup {c \o w : c \in alphabet, w \in Words(alphabet, n - 1)}

\* All sequences of 0..n elements of S
RECURSIVE SeqsUpTo(_, _)
SeqsUpTo(S, n) ==
    IF n = 0 THEN {<<>>}
    ELSE {<<>>} \cup {<<x>> \o q : x \in S, q \in SeqsUpTo(S, n - 1)}

GdriveIds == Words({"a", "Z", "7", "_", "-"}, MaxIdLen)
GdriveForms == {"file", "uc", "open", "folder", "folder_usp", "folder_id"}

GdriveLinks ==
    {[fam |-> "gdrive", form |-> f, id |-> i] : f \in GdriveForms, i \in GdriveIds}

MegaIds == Words({"F", "x"}, MaxIdLen) \cup {"file"}
MegaKeys == Words({"k", "-"}, MaxIdLen) \cup {""}
MegaKinds == {"file", "folder", "folder_file"}
MegaForms == {"path", "legacy"}
MegaHosts == {"mega.nz", "mega.co.nz"}

MegaLinks ==
    {[fam |-> "mega", form |-> f, kind |-> k, host |-> "mega.nz", id |-> i, key |-> y,
      id2 |-> IF k = "folder_file" THEN j ELSE ""] :
         f \in MegaForms, k \in MegaKinds, i \in MegaIds, y \in MegaKeys, j \in MegaIds}
    \cup
    {[fam |-> "mega", form |-> f, kind |-> k, host |-> "mega.co.nz", id |-> "Fx", key |-> "k-",
      id2 |-> IF k = "folder_file" THEN "xF" ELSE ""] : f \in MegaForms, k \in MegaKinds}
    \cup
    {[fam |-> "mega", form |-> "mixed", kind |-> "folder_file", host |-> h, id |-> i,
      key |-> y, id2 |-> "xF"] : h \in MegaHosts, i \in MegaIds, y \in MegaKeys \ {""}}

DropboxHosts == {"www.dropbox.com", "dl.dropboxusercontent.com", "example.com"}
DropboxFields == {"dl=0", "a=1", "a=2", "b=", "rlkey=k9", "c=%26d"}

DropboxLinks ==
    {[fam |-> "dropbox", host |-> h, path |-> "/s/abc/file.zip", fields |-> q] :
         h \in DropboxHosts, q \in SeqsUpTo(DropboxFields, MaxFields)}

TelegramForms == {"https", "relative"}
TelegramSegments == {"s", "c", "chan", "042", "9x"}

TelegramLinks ==
    {[fam |-> "telegram", form |-> f, host |-> h, segs |-> q] :
         f \in TelegramForms, h \in {"t.me", "telegram.dog"},
         q \in SeqsUpTo(TelegramSegments, MaxSegs)}

\* The domains of each service, and the ways a URL can carry one: as its
\* host, as the parent of its host, in capitals, with a port, as the mere
\* end of another host name, in its path only, and without a scheme.
ServiceDomains ==
    [gdrive |-> {"drive.google.com", "docs.google.com"},
     dropbox |-> {"dropbox.com", "dropboxusercontent.com"},
     mega |-> {"mega.nz", "mega.co.nz"},
     yandex |-> {"disk.yandex.ru", "yadi.sk"},
     telegram |-> {"t.me", "telegram.me", "telegram.dog"}]

HostRels == {"exact", "sub", "upper", "port", "glued", "inpath"}

HostLinks ==
    UNION {{[fam |-> "host", svc |-> v, domain |-> d, rel |-> r] :
               d \in ServiceDomains[v],
               r \in IF v = "telegram" THEN HostRels \cup {"bare"} ELSE HostRels} :
           v \in DOMAIN ServiceDomains}

UpperCh(c) ==
    IF InChars(c, LowerChars) THEN Ch(UpperChars, Find(LowerChars, c)) ELSE c

RECURSIVE Upper(_)
Upper(s) ==
    IF s = "" THEN ""
    ELSE IF Len(s) = 1 THEN UpperCh(s)
    ELSE Upper(SubSeq(s, 1, Len(s) \div 2)) \o Upper(SubSeq(s, Len(s) \div 2 + 1, Len(s)))

Links == GdriveLinks \cup MegaLinks \cup DropboxLinks \cup TelegramLinks

LinkUrl(l) ==
    CASE l.fam = "gdrive" ->
           "https://drive.google.com"
           \o (CASE l.form = "file" -> "/file/d/" \o l.id \o "/view"
                 [] l.form = "uc" -> "/uc?export=download&id=" \o l.id
                 [] l.form = "open" -> "/open?id=" \o l.id
                 [] l.form = "folder" -> "/drive/folders/" \o l.id
                 [] l.form = "folder_usp" -> "/drive/folders/" \o l.id \o "?usp=sharing"
                 [] l.form = "folder_id" -> "/drive/folders/" \o l.id \o "?id=" \o l.id
                 [] l.form = "open_esc" -> "/open?id=" \o Replace(l.id, "/", "%2F"))
      [] l.fam = "mega" ->
           "https://" \o l.host
           \o (CASE l.form = "path" /\ l.kind = "file" -> "/file/" \o l.id \o "#" \o l.key
                 [] l.form = "path" /\ l.kind = "folder" -> "/folder/" \o l.id \o "#" \o l.key
                 [] l.form = "path" /\ l.kind = "folder_file" ->
                      "/folder/" \o l.id \o "#" \o l.key \o "/file/" \o l.id2
                 [] l.form = "legacy" /\ l.kind = "file" -> "/#!" \o l.id \o "!" \o l.key
                 [] l.form = "legacy" /\ l.kind = "folder" -> "/#F!" \o l.id \o "!" \o l.key
                 [] l.form = "legacy" /\ l.kind = "folder_file" ->
                      "/#F!" \o l.id \o "!" \o l.key \o "!" \o l.id2
                 [] l.form = "mixed" -> "/#F!" \o l.id \o "!" \o l.key \o "/file/" \o l.id2)
      [] l.fam = "dropbox" ->
           "https://" \o l.host \o l.path
           \o (IF l.fields = <<>> THEN "" ELSE "?" \o Join(l.fields, "&"))
      [] l.fam = "telegram" ->
           (IF l.form = "https" THEN "https://" ELSE "") \o l.host
           \o (IF l.segs = <<>> THEN "" ELSE "/" \o Join(l.segs, "/"))
      [] l.fam = "host" ->
           CASE l.rel = "exact" -> "https://" \o l.domain \o "/d/42"
             [] l.rel = "sub" -> "https://www." \o l.domain \o "/d/42"
             [] l.rel = "upper" -> "https://" \o Upper(l.domain) \o "/d/42"
             [] l.rel = "port" -> "https://" \o l.domain \o ":443/d/42"
             [] l.rel = "glued" -> "https://not" \o l.domain \o "/d/42"
             [] l.rel = "inpath" -> "https://example.com/" \o l.domain \o "/d/42"
             [] l.rel = "bare" -> l.domain \o "/d/42"

---------------------------------------------------------------------------
VARIABLES
    url,        \* the URL under work
    link,       \* the parts url was written from
    pc,         \* where the program is
    fn,         \* the parser that was applied to url
    out,        \* its result
    out2,       \* the result of applying it again to its own result
    debug_dir,  \* whether a capture directory is configured
    telegram,   \* whether chat-platform credentials are configured
    service,    \* the downloader download_url chose
    file_id,    \* the cloud-drive file id
    calls,      \* the requests sent and the programs started, in order
    response,   \* the response the exchange ended with
    error,      \* the exception that ended the run
    warnings,   \* what was printed to the diagnostic stream
    scratch,    \* the names of the files written to dest_dir
    captured,   \* the files of the capture directory
    first,      \* what the first cloud-drive response was inspected for
    tools,      \* the encrypted-storage clients found on this machine
    force,      \* args.force
    fs,         \* the file system: the node at each path
    todo,       \* the number of URLs of args.url not yet reached
    downloaded, \* the items of the current URL not yet processed
    extracted,  \* the entries of the current archive not yet placed
    moved,      \* the list process_downloads is building
    all_moved,  \* main's list of placed paths
    owned,      \* the paths chown was run on, in order
    printed     \* the lines printed to the standard output

vars == <<url, link, pc, fn, out, out2, debug_dir, telegram, service, file_id, calls,
          response, error, warnings, scratch, captured, first, tools, force, fs, todo,
          downloaded, extracted, moved, all_moved, owned, printed>>

\* The variables of main and of process_downloads
mainVars == <<force, fs, todo, downloaded, extracted, moved, all_moved, owned, printed>>

runVars == <<debug_dir, telegram, service, file_id, calls, response, error, warnings,
             scratch, captured, first, tools>>

NoError == [kind |-> "", title |-> "", saved |-> FALSE]

\* Nothing has run yet
Fresh ==
    /\ fn = ""
    /\ out = None
    /\ out2 = None
    /\ service = ""
    /\ file_id = None
    /\ calls = <<>>
    /\ response = None
    /\ error = NoError
    /\ warnings = <<>>
    /\ scratch = {}
    /\ captured = {}
    /\ first = None
    /\ tools = None

\* main has not begun
NoMain ==
    /\ force = FALSE
    /\ fs = <<>>
    /\ todo = 0
    /\ downloaded = <<>>
    /\ extracted = <<>>
    /\ moved = <<>>
    /\ all_moved = <<>>
    /\ owned = <<>>
    /\ printed = <<>>

InitLinks ==
    /\ link \in Links
    /\ url = LinkUrl(link)
    /\ pc = "input"
    /\ debug_dir = FALSE
    /\ telegram = FALSE
    /\ Fresh
    /\ NoMain

Apply(name, result, again) ==
    /\ pc = "input"
    /\ pc' = "applied"
    /\ fn' = name
    /\ out' = result
    /\ out2' = again
    /\ UNCHANGED <<url, link>>
    /\ UNCHANGED runVars
    /\ UNCHANGED mainVars

ExtractGdriveFileId ==
    /\ link.fam = "gdrive"
    /\ Apply("extract_gdrive_file_id", extract_gdrive_file_id(url), None)

ParseMegaLink ==
    /\ link.fam = "mega"
    /\ Apply("parse_mega_link", parse_mega_link(url), None)

NormalizeDropboxUrl ==
    /\ link.fam = "dropbox"
    /\ Apply("normalize_dropbox_url", normalize_dropbox_url(url),
             normalize_dropbox_url(normalize_dropbox_url(url)))

ParseTelegramMessageUrl ==
    /\ link.fam = "telegram"
    /\ Apply("parse_telegram_message_url", parse_telegram_message_url(url), None)

NextLinks ==
    \/ ExtractGdriveFileId
    \/ ParseMegaLink
    \/ NormalizeDropboxUrl
    \/ ParseTelegramMessageUrl

SpecLinks == InitLinks /\ [][NextLinks]_vars

---------------------------------------------------------------------------
(* Claims about the link parsers, checked under SpecLinks                  *)

\* C3: extract_gdrive_file_id returns the id of the link for the /file/d/<id>
\* form, the uc?export=download&id=<id> form and the open?id=<id> form, and
\* None for every link whose path is /drive/folders/...
C3_SameIdAndNoFolder ==
    fn = "extract_gdrive_file_id" =>
        /\ link.form \in {"file", "uc", "open"} => out = Some(link.id)
        /\ link.form \in {"folder", "folder_usp", "folder_id"} => out = None

\* The field name of a query field "name=value"
FieldName(field) == Split1(field, "=")[1]

\* The fields of a URL's query
QueryFields(u) == Split(urlparse(u).query, "&")

\* C4: normalize_dropbox_url returns its input when the host is the
\* direct-content host or no sync-service host; otherwise the result has the
\* field dl=1 once and no other dl field, and has every other field of the
\* input; and normalizing the result again changes nothing.
C4_NormalizeKeepsParams ==
    fn = "normalize_dropbox_url" =>
        /\ link.host \in {"dl.dropboxusercontent.com", "example.com"} => out = url
        /\ link.host = "www.dropbox.com" =>
              /\ Cardinality({k \in 1..Len(QueryFields(out)) :
                                 FieldName(QueryFields(out)[k]) = "dl"}) = 1
              /\ \E k \in 1..Len(QueryFields(out)) : QueryFields(out)[k] = "dl=1"
              /\ \A k \in 1..Len(link.fields) :
                    FieldName(link.fields[k]) # "dl" =>
                        \E j \in 1..Len(QueryFields(out)) :
                            QueryFields(out)[j] = link.fields[k]
        /\ out2 = out

\* What a link of the given kind, ids and key is to parse to, whatever form
\* it is written in
MegaExpected(l) ==
    CASE l.kind = "file" ->
           [kind |-> "file", file_id |-> l.id, key |-> l.key, base |-> "https://" \o l.host]
      [] l.kind = "folder" ->
           [kind |-> "folder", folder_id |-> l.id, key |-> l.key, base |-> "https://" \o l.host]
      [] l.kind = "folder_file" ->
           [kind |-> "folder_file", folder_id |-> l.id, key |-> l.key,
            file_id |-> l.id2, base |-> "https://" \o l.host]

\* C5: for every id and key, parse_mega_link gives the same kind, ids and
\* key for the path-based form and for the legacy fragment form of a link.
C5_MegaFormsAgree ==
    (fn = "parse_mega_link" /\ link.form \in {"path", "legacy"}) =>
        out = Some(MegaExpected(link))

C5_Witness ==
    /\ fn = "parse_mega_link"
    /\ link.form = "legacy"
    /\ link.kind = "folder_file"
    /\ link.key # ""
    /\ out = Some(MegaExpected(link))

\* C6: a link whose fragment is F!FID!KEY/file/SUBID parses to kind
\* folder_file with folder id FID, key KEY and file id SUBID.
C6_MixedFragment ==
    (fn = "parse_mega_link" /\ link.form = "mixed") =>
        out = Some(MegaExpected(link))

\* The paths parse_telegram_message_url accepts: a numeric last segment, at
\* least two segments (three after "s" or "c"), a numeric chat id after "c".
TgAccepted(segs) ==
    /\ Len(segs) >= 2
    /\ IsDigit(segs[Len(segs)])
    /\ segs[1] \in {"s", "c"} => Len(segs) >= 3
    /\ segs[1] = "c" => IsDigit(segs[2])

TgExpected(segs) ==
    [peer |-> IF segs[1] = "c" THEN PyInt("-100" \o segs[2])
              ELSE IF segs[1] = "s" THEN PyStr(segs[2])
              ELSE PyStr(segs[1]),
     msg_id |-> PyInt(IntOf(segs[Len(segs)]))]

TgThreeShapes(segs) ==
    \/ Len(segs) = 3 /\ segs[1] = "s" /\ IsDigit(segs[3])
    \/ Len(segs) = 3 /\ segs[1] = "c" /\ IsDigit(segs[2]) /\ IsDigit(segs[3])
    \/ Len(segs) = 2 /\ segs[1] \notin {"s", "c"} /\ IsDigit(segs[2])

---------------------------------------------------------------------------
(* One run of download_url: the inputs                                     *)

RunGdriveLinks ==
    {[fam |-> "gdrive", form |-> f, id |-> "a7", name |-> "a7"] : f \in GdriveForms}
    \cup {[fam |-> "gdrive", form |-> "open_esc", id |-> "a/b", name |-> "b"]}

RunDropboxLinks ==
    {l \in DropboxLinks : l.host # "example.com" /\ l.fields \in {<<>>, <<"dl=0">>}}
    \cup {[fam |-> "dropbox", host |-> "www.dropbox.com", path |-> "/", fields |-> <<>>]}

RunMegaLinks ==
    {l \in MegaLinks : l.host = "mega.nz" /\ l.id = "Fx" /\ l.id2 \in {"", "xF"}
                       /\ l.key \in {"", "k-"}}

RunTelegramLinks ==
    {l \in TelegramLinks :
        /\ l.host = "t.me"
        /\ l.segs \in {<<"chan", "042">>, <<"c", "042", "9x">>, <<"c", "042", "042">>,
                       <<"chan">>, <<"s", "042">>}}

RunLinks == HostLinks \cup RunGdriveLinks \cup RunDropboxLinks \cup RunMegaLinks
            \cup RunTelegramLinks

HtmlType == "text/html; charset=utf-8"
ZipType == "application/zip"

\* The pages a cloud-drive exchange meets: a sign-in wall (two wordings), a
\* quota notice, a warning with a confirm link, a warning with a download
\* form, a script with a download address, a script with a token, and a form
\* whose action carries the token.
PageSignIn ==
    "<html><title>Sign in</title><a href=\"https://accounts.google.com/signin\">Sign in</a></html>"
PageLogin == "<html><title>Drive</title><a href=\"/ServiceLogin\">Log in</a></html>"
PageQuota == "<html><TITLE>\nQuota exceeded </TITLE>Too many downloads</html>"
PageConfirmLink ==
    "<a id=\"uc-download-link\" href=\"/uc?export=download&amp;confirm=t0K&amp;id=a7\">Go</a>"
PageForm ==
    "<form id=\"download-form\" action=\"https://drive.usercontent.google.com/download\">"
    \o "<input name=\"id\" value=\"a7\"><input name=\"confirm\" value=\"t\">"
    \o "<input name=\"uuid\" value=\"u-1\"></form>"
PageJson == "{\"downloadUrl\":\"https:\\/\\/doc-0.googleusercontent.com\\/f\\u003d1\"}"
PageToken == "<script>x={'confirm' : 'Zz9'}</script>"
PageAction == "<form action=\"/uc?export=download&amp;confirm=Tk&amp;id=zz\"></form>"

Pages == {PageSignIn, PageLogin, PageQuota, PageConfirmLink, PageForm, PageJson, PageToken,
          PageAction}

\* Content-disposition headers ("" is a missing header), each with the name
\* its filename* parameter and its filename parameter stand for
CdHeaders ==
    {[text |-> "", star |-> "", plain |-> ""],
     [text |-> "inline", star |-> "", plain |-> ""],
     [text |-> "attachment; filename=\"mod.zip\"", star |-> "", plain |-> "mod.zip"],
     [text |-> "attachment; filename=mod.zip", star |-> "", plain |-> "mod.zip"],
     [text |-> "attachment; filename=\"x.zip\"; filename*=UTF-8''my%20mod.zip",
      star |-> "my mod.zip", plain |-> "x.zip"],
     [text |-> "attachment; filename*=UTF-8''..%2Fup.zip", star |-> "up.zip", plain |-> ""]}

Statuses == {200, 403}

ResponsesWith(cookies, urls) ==
    {[status |-> st, ctype |-> HtmlType, cd |-> h.text, cookie |-> ck, body |-> b, url |-> u] :
        st \in Statuses, h \in CdHeaders, ck \in cookies, b \in Pages, u \in urls}
    \cup
    {[status |-> st, ctype |-> ZipType, cd |-> h.text, cookie |-> ck, body |-> "", url |-> u] :
        st \in Statuses, h \in CdHeaders, ck \in cookies, u \in urls}

\* The first response of the cloud-drive exchange may set a download_warning
\* cookie; the downloader reads no cookie of a later response and the final
\* address of none.
GdInitialResponses == ResponsesWith({None, Some(""), Some("cK")}, {""})
GdFinalResponses == ResponsesWith({None}, {""})

\* The final addresses of a sync-service response: the address asked for, or
\* after a redirect one with a file name and one without
RedirectNamed == "https://uc.dropboxusercontent.com/cd/0/get/blob%20x.bin"
RedirectBare == "https://uc.dropboxusercontent.com/"

DropboxResponses(download_url) ==
    {r \in ResponsesWith({None}, {download_url, RedirectNamed, RedirectBare}) :
        r.body \in {"", PageQuota}}

EnsureOutcomes == {"present", "installed", "failed"}

MegaEnvs == [mega_get : BOOLEAN, megadl : BOOLEAN, py313 : BOOLEAN]

InitRun ==
    /\ link \in RunLinks
    /\ url = LinkUrl(link)
    /\ pc = "start"
    /\ debug_dir \in BOOLEAN
    /\ telegram \in BOOLEAN
    /\ Fresh
    /\ NoMain

---------------------------------------------------------------------------
(* One run of download_url: the steps                                      *)

Err(kind) == [kind |-> kind, title |-> "", saved |-> FALSE]

Fail(kind) == pc' = "failed" /\ error' = Err(kind)

Go(label) == pc' = label /\ error' = error

HttpGet(u, params) == [kind |-> "GET", url |-> u, params |-> params]

Run(program, arg) == [kind |-> program, url |-> arg, params |-> <<>>]

\* ensure_module(module_name, pip_name): the programs it starts.  An
\* installed module starts none; a missing one starts pip, and the run goes
\* on when the module can be imported afterwards.
ensure_module(outcome, pip_name) ==
    IF outcome = "present" THEN <<>> ELSE <<Run("pip", pip_name)>>

\* The branch download_url takes
Dispatch(u) ==
    IF is_google_drive(u) THEN "gdrive"
    ELSE IF is_dropbox(u) THEN "dropbox"
    ELSE IF is_mega(u) THEN "mega"
    ELSE IF is_telegram(u) THEN "telegram"
    ELSE "unsupported"

DownloadUrl ==
    /\ pc = "start"
    /\ service' = Dispatch(url)
    /\ IF service' = "unsupported" THEN Fail("unsupported_url")
       ELSE IF service' = "telegram" /\ ~telegram THEN Fail("credentials_missing")
       ELSE Go(service')
    /\ UNCHANGED mainVars
    /\ UNCHANGED <<url, link, fn, out, out2, first, tools>>
    /\ UNCHANGED <<debug_dir, telegram, file_id, calls, response,
                   warnings, scratch, captured>>

\* target.open("wb") in write_stream_to_file: a name that stands for a
\* directory cannot be opened, any other name becomes a file of dest_dir
WriteStreamToFile(filename) ==
    IF filename \in {"", ".."}
    THEN Fail("not_a_file") /\ scratch' = scratch
    ELSE Go("downloaded") /\ scratch' = scratch \cup {filename}

BASE_URL == "https://drive.google.com/uc?export=download"

Truthy(m) == m # None /\ m[1] # ""

\* download_google_drive up to its first request
GdRequest(installs) ==
    IF ~Truthy(file_id')
    THEN Fail("malformed_link") /\ calls' = calls \o installs
    ELSE /\ Go("gd_initial")
         /\ calls' = calls \o installs
                     \o <<HttpGet(BASE_URL, <<[key |-> "id", values |-> file_id'[1]]>>)>>

GdStart ==
    /\ pc = "gdrive"
    /\ \E outcome \in EnsureOutcomes :
          IF outcome = "failed"
          THEN /\ Fail("module_install_failed")
               /\ calls' = calls \o ensure_module(outcome, "requests")
               /\ file_id' = file_id
          ELSE /\ file_id' = extract_gdrive_file_id(url)
               /\ GdRequest(ensure_module(outcome, "requests"))
    /\ UNCHANGED mainVars
    /\ UNCHANGED <<url, link, fn, out, out2, first, tools>>
    /\ UNCHANGED <<debug_dir, telegram, service, response,
                   warnings, scratch, captured>>

\* A slip in the test for a sign-in wall: one of the two markers is left out.
SignInWall_Slip(html) == Contains(html, "ServiceLogin")

SignInWall(html) == Contains(html, "accounts.google.com") \/ Contains(html, "ServiceLogin")

HtmlWithoutCd(r) == Contains(r.ctype, "text/html") /\ r.cd = ""

GdFilename(name, id) == PathName(IF Truthy(name) THEN name[1] ELSE id)

\* download_google_drive from the last raise_for_status on
GdFinish(r) ==
    /\ response' = Some(r)
    /\ IF r.status >= 400
       THEN Fail("http_error") /\ UNCHANGED <<scratch, captured>>
       ELSE IF HtmlWithoutCd(r)
       THEN /\ captured' = save_debug_html(captured, r.body, debug_dir, "gdrive_" \o file_id[1])
            /\ pc' = "failed"
            /\ error' = [kind |-> IF SignInWall(r.body) THEN "auth_required"
                                  ELSE "permission_denied",
                         title |-> IF SignInWall(r.body) THEN ""
                                   ELSE extract_html_title(r.body),
                         saved |-> ~SignInWall(r.body) /\ debug_dir]
            /\ scratch' = scratch
       ELSE /\ WriteStreamToFile(GdFilename(filename_from_cd(r.cd), file_id[1]))
            /\ captured' = captured

ConfirmRequest(id, token) ==
    HttpGet(BASE_URL, <<[key |-> "id", values |-> id], [key |-> "confirm", values |-> token]>>)

\* A slip in the order of the guards: the token is looked at before the
\* form.
GdPlanHtml_Slip(id, download_url, token, form_action, form_params, action_params) ==
    IF Truthy(download_url)
    THEN [kind |-> "follow", req |-> HttpGet(download_url[1], <<>>)]
    ELSE IF Truthy(token)
    THEN [kind |-> "confirm", req |-> ConfirmRequest(id, token[1])]
    ELSE IF form_params # <<>> \/ action_params # <<>>
    THEN [kind |-> "follow",
          req |-> HttpGet(IF Truthy(form_action) THEN form_action[1] ELSE BASE_URL,
                          Update(Update(<<[key |-> "id", values |-> id]>>, action_params),
                                 form_params))]
    ELSE [kind |-> "finish"]

\* What download_google_drive does with an HTML first response
GdPlanHtml(id, download_url, token, form_action, form_params, action_params) ==
    IF Truthy(download_url)
    THEN [kind |-> "follow", req |-> HttpGet(download_url[1], <<>>)]
    ELSE IF form_params # <<>> \/ action_params # <<>>
    THEN [kind |-> "follow",
          req |-> HttpGet(IF Truthy(form_action) THEN form_action[1] ELSE BASE_URL,
                          Update(Update(<<[key |-> "id", values |-> id]>>, action_params),
                                 form_params))]
    ELSE IF Truthy(token)
    THEN [kind |-> "confirm", req |-> ConfirmRequest(id, token[1])]
    ELSE [kind |-> "finish"]

\* What download_google_drive does with its first response
GdPlan(r, id) ==
    IF r.cookie # None
    THEN IF r.cookie[1] # "" THEN [kind |-> "confirm", req |-> ConfirmRequest(id, r.cookie[1])]
         ELSE [kind |-> "finish"]
    ELSE IF ~Contains(r.ctype, "text/html") THEN [kind |-> "finish"]
    ELSE GdPlanHtml(id, extract_download_url_from_html(r.body),
                    get_confirm_token_from_html(r.body),
                    extract_gdrive_form_action(r.body),
                    extract_gdrive_form_params(r.body),
                    extract_gdrive_action_params(r.body))

\* A slip in the exchange: the answer to a followed address is inspected
\* like a first response, so that it may be followed again.
GdFollowPlan_Slip(r, plan) ==
    IF plan.kind = "finish" THEN GdFinish(r) /\ calls' = calls
    ELSE /\ Go(IF plan.kind = "follow" THEN "gd_initial" ELSE "gd_final")
         /\ calls' = Append(calls, plan.req)
         /\ UNCHANGED <<response, scratch, captured>>

GdFollowPlan(r, plan) ==
    IF plan.kind = "finish" THEN GdFinish(r) /\ calls' = calls
    ELSE /\ Go(IF plan.kind = "follow" THEN "gd_follow" ELSE "gd_final")
         /\ calls' = Append(calls, plan.req)
         /\ UNCHANGED <<response, scratch, captured>>

\* The first response arrives
GdInitial ==
    /\ pc = "gd_initial"
    /\ \E r \in GdInitialResponses :
          /\ GdFollowPlan(r, GdPlan(r, file_id[1]))
          /\ first' = Some([cookie |-> r.cookie, ctype |-> r.ctype, body |-> r.body])
    /\ UNCHANGED mainVars
    /\ UNCHANGED <<url, link, fn, out, out2, tools, debug_dir, telegram, service, file_id,
                   warnings>>

\* The response to the request for the address or the form of the page
\* arrives: raise_for_status, token = None, and the last part
GdFollow ==
    /\ pc = "gd_follow"
    /\ \E r \in GdFinalResponses : GdFinish(r)
    /\ UNCHANGED mainVars
    /\ UNCHANGED <<url, link, fn, out, out2, first, tools>>
    /\ UNCHANGED <<debug_dir, telegram, service, file_id, calls,
                   warnings>>

\* The response to the request with the confirm token arrives
GdFinal ==
    /\ pc = "gd_final"
    /\ \E r \in GdFinalResponses : GdFinish(r)
    /\ UNCHANGED mainVars
    /\ UNCHANGED <<url, link, fn, out, out2, first, tools>>
    /\ UNCHANGED <<debug_dir, telegram, service, file_id, calls,
                   warnings>>

\* download_dropbox up to its request
DbStart ==
    /\ pc = "dropbox"
    /\ \E outcome \in EnsureOutcomes :
          IF outcome = "failed"
          THEN /\ Fail("module_install_failed")
               /\ calls' = calls \o ensure_module(outcome, "requests")
          ELSE /\ Go("db_response")
               /\ calls' = calls \o ensure_module(outcome, "requests")
                           \o <<HttpGet(normalize_dropbox_url(url), <<>>)>>
    /\ UNCHANGED mainVars
    /\ UNCHANGED <<url, link, fn, out, out2, first, tools>>
    /\ UNCHANGED <<debug_dir, telegram, service, file_id, response,
                   warnings, scratch, captured>>

\* filename_from_cd(...), else filename_from_url(response.url) or
\* filename_from_url(download_url)
DbFilename(from_cd, from_final, from_asked) ==
    IF Truthy(from_cd) THEN from_cd
    ELSE IF Truthy(from_final) THEN from_final
    ELSE from_asked

DbWrite(filename) ==
    IF ~Truthy(filename) THEN Fail("no_filename") /\ scratch' = scratch
    ELSE WriteStreamToFile(PathName(filename[1]))

DbFinish(r, download_url) ==
    /\ response' = Some(r)
    /\ IF r.status >= 400 THEN Fail("http_error") /\ scratch' = scratch
       ELSE IF HtmlWithoutCd(r) THEN Fail("permission_denied") /\ scratch' = scratch
       ELSE DbWrite(DbFilename(filename_from_cd(r.cd), filename_from_url(r.url),
                               filename_from_url(download_url)))

\* The response arrives
DbResponse ==
    /\ pc = "db_response"
    /\ \E r \in DropboxResponses(calls[Len(calls)].url) : DbFinish(r, calls[Len(calls)].url)
    /\ UNCHANGED mainVars
    /\ UNCHANGED <<url, link, fn, out, out2, first, tools>>
    /\ UNCHANGED <<debug_dir, telegram, service, file_id, calls,
                   warnings, captured>>

\* run(["megadl", "--path", dest_dir, mega_url]) with its warning, which is
\* printed before megadl is started: it records how many programs had been
\* started by then
MegadlRun(m) ==
    /\ Go("megadl_run")
    /\ calls' = Append(calls, Run("megadl", m.url))
    /\ warnings' = IF m.folder_fallback
                   THEN Append(warnings, [text |-> "whole_folder", calls |-> Len(calls)])
                   ELSE warnings

MegadlBegin(info) ==
    IF info # None /\ info[1].kind = "folder_file"
    THEN Go("megadl_try") /\ calls' = Append(calls, Run("megadl", url)) /\ warnings' = warnings
    ELSE MegadlRun(mega_url_for_megatools(url))

\* A slip in the preference: megadl is looked for before mega-get.
MegaBegin_Slip(env, outcome) ==
    IF env.megadl THEN MegadlBegin(parse_mega_link(url))
    ELSE IF env.mega_get
    THEN Go("mega_get_run") /\ calls' = Append(calls, Run("mega-get", url))
         /\ warnings' = warnings
    ELSE IF env.py313 THEN Fail("runtime_incompatible") /\ UNCHANGED <<calls, warnings>>
    ELSE IF outcome = "failed"
    THEN Fail("module_install_failed") /\ calls' = calls \o ensure_module(outcome, "mega.py")
         /\ warnings' = warnings
    ELSE Go("mega_lib_run")
         /\ calls' = calls \o ensure_module(outcome, "mega.py") \o <<Run("mega.py", url)>>
         /\ warnings' = warnings

\* download_mega up to the start of its client
MegaBegin(env, outcome) ==
    IF env.mega_get
    THEN Go("mega_get_run") /\ calls' = Append(calls, Run("mega-get", url))
         /\ warnings' = warnings
    ELSE IF env.megadl THEN MegadlBegin(parse_mega_link(url))
    ELSE IF env.py313 THEN Fail("runtime_incompatible") /\ UNCHANGED <<calls, warnings>>
    ELSE IF outcome = "failed"
    THEN Fail("module_install_failed") /\ calls' = calls \o ensure_module(outcome, "mega.py")
         /\ warnings' = warnings
    ELSE Go("mega_lib_run")
         /\ calls' = calls \o ensure_module(outcome, "mega.py") \o <<Run("mega.py", url)>>
         /\ warnings' = warnings

MegaStart ==
    /\ pc = "mega"
    /\ \E env \in MegaEnvs, outcome \in EnsureOutcomes :
          /\ MegaBegin(env, outcome)
          /\ tools' = Some([mega_get |-> env.mega_get, megadl |-> env.megadl,
                            py313 |-> env.py313, module |-> outcome])
    /\ UNCHANGED mainVars
    /\ UNCHANGED <<url, link, fn, out, out2, first, debug_dir, telegram, service, file_id, response,
                   scratch, captured>>

\* items = list(dest_dir.iterdir()); if not items: raise
Items(created) ==
    IF created THEN Go("downloaded") /\ scratch' = scratch \cup {"mega_item"}
    ELSE Fail("empty_result") /\ scratch' = scratch

\* run(...) of the client has returned, or the library call has
ClientExit(failure) ==
    /\ \E ok \in BOOLEAN, created \in BOOLEAN :
          IF ok THEN Items(created) ELSE Fail(failure) /\ scratch' = scratch
    /\ UNCHANGED mainVars
    /\ UNCHANGED <<url, link, fn, out, out2, first, tools>>
    /\ UNCHANGED <<debug_dir, telegram, service, file_id, calls,
                   response, warnings, captured>>

MegaGetExit ==
    /\ pc = "mega_get_run"
    /\ ClientExit("process_failed")

MegadlExit ==
    /\ pc = "megadl_run"
    /\ ClientExit("process_failed")

MegaLibExit ==
    /\ pc = "mega_lib_run"
    /\ ClientExit("client_failed")

\* The first megadl of a folder-file link ends: on failure the link is
\* rewritten for megadl and megadl is started again
MegadlTryExit ==
    /\ pc = "megadl_try"
    /\ \E ok \in BOOLEAN, created \in BOOLEAN :
          IF ok THEN Items(created) /\ UNCHANGED <<calls, warnings>>
          ELSE MegadlRun(mega_url_for_megatools(url)) /\ scratch' = scratch
    /\ UNCHANGED mainVars
    /\ UNCHANGED <<url, link, fn, out, out2, first, tools>>
    /\ UNCHANGED <<debug_dir, telegram, service, file_id, response,
                   captured>>

TgBegin(info, installs) ==
    IF info = None THEN Fail("malformed_link") /\ calls' = calls \o installs
    ELSE /\ Go("tg_fetch")
         /\ calls' = calls \o installs
                     \o <<[kind |-> "telegram", url |-> url, params |-> info[1]]>>

\* download_telegram up to client.get_messages
TgStart ==
    /\ pc = "telegram"
    /\ \E outcome \in EnsureOutcomes :
          IF outcome = "failed"
          THEN Fail("module_install_failed")
               /\ calls' = calls \o ensure_module(outcome, "telethon")
          ELSE TgBegin(parse_telegram_message_url(url), ensure_module(outcome, "telethon"))
    /\ UNCHANGED mainVars
    /\ UNCHANGED <<url, link, fn, out, out2, first, tools>>
    /\ UNCHANGED <<debug_dir, telegram, service, file_id, response,
                   warnings, scratch, captured>>

TgResults == {"no_message", "no_media", "no_result", "file"}

\* The message and its download arrive
TgFetch ==
    /\ pc = "tg_fetch"
    /\ \E result \in TgResults :
          IF result = "file"
          THEN Go("downloaded") /\ scratch' = scratch \cup {"telegram_file"}
          ELSE /\ Fail(CASE result = "no_message" -> "message_not_found"
                         [] result = "no_media" -> "no_media"
                         [] result = "no_result" -> "empty_result")
               /\ scratch' = scratch
    /\ UNCHANGED mainVars
    /\ UNCHANGED <<url, link, fn, out, out2, first, tools>>
    /\ UNCHANGED <<debug_dir, telegram, service, file_id, calls,
                   response, warnings, captured>>

Init == InitRun

Next ==
    \/ DownloadUrl
    \/ GdStart
    \/ GdInitial
    \/ GdFollow
    \/ GdFinal
    \/ DbStart
    \/ DbResponse
    \/ MegaStart
    \/ MegaGetExit
    \/ MegadlExit
    \/ MegadlTryExit
    \/ MegaLibExit
    \/ TgStart
    \/ TgFetch

Spec == Init /\ [][Next]_vars

---------------------------------------------------------------------------
(* Claims about a run, checked under Spec                                  *)

\* The service whose allow-list the host of the link is on, by the way the
\* link was written: "none" when an allow-listed name is only the end of
\* the host name, or only in the path.
ExpectedKind(l) ==
    CASE l.fam = "host" -> IF l.rel \in {"glued", "inpath"} THEN "none" ELSE l.svc
      [] l.fam = "dropbox" -> IF l.host = "example.com" THEN "none" ELSE "dropbox"
      [] OTHER -> l.fam

\* C1: a URL whose host is, or is a subdomain of, an allow-listed domain of
\* one of the five services (in any letter case), and a chat-platform URL
\* written without its scheme, is dispatched by download_url to the
\* downloader of that service.
C1_Dispatch ==
    (pc # "start" /\ ExpectedKind(link) # "none") => service = ExpectedKind(link)

\* C2: for a URL whose host is neither an allow-listed domain nor a
\* subdomain of one, every service predicate is false and download_url
\* fails with the unsupported-URL error without starting any transfer.
C2_Unclassified ==
    (pc # "start" /\ ExpectedKind(link) = "none") =>
        /\ ~is_google_drive(url)
        /\ ~is_dropbox(url)
        /\ ~is_mega(url)
        /\ ~is_telegram(url)
        /\ pc = "failed"
        /\ error.kind = "unsupported_url"
        /\ calls = <<>>
        /\ scratch = {}

\* The link names every identifier its kind needs
MegaComplete(l) ==
    /\ l.fam = "mega"
    /\ l.id # ""
    /\ l.key # ""
    /\ l.kind = "folder_file" => l.id2 # ""

\* C8: a cloud-drive request is sent only with a non-empty file id, an
\* encrypted-storage client is started only for a link whose id and key are
\* non-empty, and a chat-platform fetch is made only with a non-empty peer
\* and a numeric message id.
C8_NoCallWithoutIds ==
    \A k \in 1..Len(calls) :
        /\ calls[k].kind = "GET" /\ service = "gdrive" => Truthy(file_id)
        /\ calls[k].kind \in {"mega-get", "megadl", "mega.py"} => MegaComplete(link)
        /\ calls[k].kind = "telegram" =>
              /\ calls[k].params.peer[2] # ""
              /\ IsDigit(calls[k].params.msg_id[2])

\* The exchange ended with an HTML response that has no content-disposition
EndedWithHtml ==
    /\ service \in {"gdrive", "dropbox"}
    /\ response # None
    /\ response[1].ctype = HtmlType
    /\ response[1].cd = ""

\* What C9 says of such an end
HtmlEndIsClassified ==
    /\ pc = "failed"
    /\ error.kind # ""
    /\ scratch = {}
    /\ service = "gdrive" =>
          /\ error.kind = IF response[1].body \in {PageSignIn, PageLogin} THEN "auth_required"
                          ELSE "permission_denied"
          /\ debug_dir => /\ captured # {}
                          /\ \A f \in captured : f.text = response[1].body
          /\ ~debug_dir => captured = {}

CdOf(text) == CHOOSE h \in CdHeaders : h.text = text

\* The last path segment of the address the sync-service request asked
\* for, and of the final address of the response
AskedName(l) ==
    IF l.fam = "host" THEN "42" ELSE IF l.path = "/" THEN "" ELSE "file.zip"

FinalName(l, u) ==
    IF u = RedirectNamed THEN "blob x.bin" ELSE IF u = RedirectBare THEN "" ELSE AskedName(l)

FirstName(names) == IF SelectSeq(names, LAMBDA n : n # "") = <<>> THEN ""
                    ELSE Head(SelectSeq(names, LAMBDA n : n # ""))

\* The name C10 as amended gives the file
AmendedName ==
    FirstName(<<CdOf(response[1].cd).star, CdOf(response[1].cd).plain>>
              \o (IF service = "gdrive" THEN <<link.name>>
                  ELSE <<FinalName(link, response[1].url), AskedName(link)>>))

\* C10 as amended: the file is named after the filename* parameter
\* percent-decoded, else the filename parameter, else for the sync-service
\* the last path segment of the final URL and then of the requested URL,
\* else for cloud-drive the file id (the last path segment of the final URL
\* is no source there); the name is cut to its last path component, and a
\* sync-service download with no source at all ends in an error.
C10_Filename ==
    /\ (pc = "downloaded" /\ service \in {"gdrive", "dropbox"}) => scratch = {AmendedName}
    /\ (service = "dropbox" /\ response # None /\ response[1].status < 400
        /\ ~EndedWithHtml /\ AmendedName = "") =>
            pc = "failed" /\ error.kind = "no_filename" /\ scratch = {}

C10_Witness ==
    /\ pc = "downloaded"
    /\ service = "gdrive"
    /\ Len(calls) >= 2
    /\ response[1].cd = "inline"
    /\ scratch = {"a7"}

\* The name C10 as stated gives the file: the last path segment of the
\* final URL comes before the fallback in both downloaders.  The final URL
\* of a cloud-drive exchange is the address of its last request.
StatedName ==
    FirstName(<<CdOf(response[1].cd).star, CdOf(response[1].cd).plain>>
              \o (IF service = "gdrive"
                  THEN <<filename_from_url(calls[Len(calls)].url)[1], link.name>>
                  ELSE <<FinalName(link, response[1].url), AskedName(link)>>))

\* C10 as stated
C10_Precedence ==
    (pc = "downloaded" /\ service \in {"gdrive", "dropbox"}) => scratch = {StatedName}

IsGet(c) == c.kind = "GET"

\* The HTTP requests of the exchange, in order
Gets == SelectSeq(calls, IsGet)

\* The first response was an HTML page that came without a confirm cookie
InspectedPage == first # None /\ first[1].cookie = None /\ Contains(first[1].ctype, "text/html")

\* What the page parsers find in a page
Findings(b) ==
    [redirect |-> extract_download_url_from_html(b),
     token |-> get_confirm_token_from_html(b),
     action |-> extract_gdrive_form_action(b),
     fields |-> extract_gdrive_form_params(b),
     query |-> extract_gdrive_action_params(b)]

HasForm(page) == page.fields # <<>> \/ page.query # <<>>

\* The request rebuilt from the download form: the action of the form (or
\* the base address), the fields of the form, the query parameters of the
\* action that no field overrides, and an id
FormRequest(req, page) ==
    /\ req.url = (IF Truthy(page.action) THEN page.action[1] ELSE BASE_URL)
    /\ \A k \in DOMAIN page.fields :
          /\ HasKey(req.params, page.fields[k].key)
          /\ Lookup(req.params, page.fields[k].key) = page.fields[k].values
    /\ \A k \in DOMAIN page.query :
          \/ HasKey(page.fields, page.query[k].key)
          \/ /\ HasKey(req.params, page.query[k].key)
             /\ Lookup(req.params, page.query[k].key) = page.query[k].values
    /\ HasKey(req.params, "id")
    /\ (~HasKey(page.fields, "id") /\ ~HasKey(page.query, "id"))
          => Lookup(req.params, "id") = file_id[1]

\* With a confirm cookie the page is not looked at: the request repeats
\* with the token of the cookie, whatever the body holds
CookieGuard(gets) ==
    (first # None /\ first[1].cookie # None) =>
        IF first[1].cookie[1] # ""
        THEN Len(gets) = 2 /\ gets[2] = ConfirmRequest(file_id[1], first[1].cookie[1])
        ELSE Len(gets) = 1

RedirectGuard(gets, page) ==
    Truthy(page.redirect) => (Len(gets) = 2 /\ gets[2] = HttpGet(page.redirect[1], <<>>))

\* Nothing to go on: the first response is taken for the file
NoFollowUp(gets, page) ==
    (~Truthy(page.redirect) /\ ~Truthy(page.token) /\ ~HasForm(page)) => Len(gets) = 1

FormFirst(gets, page) ==
    /\ RedirectGuard(gets, page)
    /\ NoFollowUp(gets, page)
    /\ (~Truthy(page.redirect) /\ HasForm(page)) =>
          Len(gets) = 2 /\ FormRequest(gets[2], page)
    /\ (~Truthy(page.redirect) /\ ~HasForm(page) /\ Truthy(page.token)) =>
          Len(gets) = 2 /\ gets[2] = ConfirmRequest(file_id[1], page.token[1])

TokenFirst(gets, page) ==
    /\ RedirectGuard(gets, page)
    /\ NoFollowUp(gets, page)
    /\ (~Truthy(page.redirect) /\ Truthy(page.token)) =>
          Len(gets) = 2 /\ gets[2] = ConfirmRequest(file_id[1], page.token[1])
    /\ (~Truthy(page.redirect) /\ ~Truthy(page.token) /\ HasForm(page)) =>
          Len(gets) = 2 /\ FormRequest(gets[2], page)

\* C17 (amended): after an HTML first response without a confirm cookie,
\* a redirect URL found in the page is followed; otherwise, when the page
\* has form fields or an action with query parameters, the request rebuilt
\* from the form is sent, whether or not a token was found; the request
\* with the confirm token of the page is sent only when there is neither a
\* redirect nor a form.  With a confirm cookie the page is not inspected
\* and the request is repeated with the token of the cookie (when that is
\* not empty).
C17_GuardOrder ==
    /\ CookieGuard(Gets)
    /\ (first # None /\ first[1].cookie = None /\ ~Contains(first[1].ctype, "text/html"))
          => Len(Gets) = 1
    /\ InspectedPage => FormFirst(Gets, Findings(first[1].body))

FormBeatsToken(page) == ~Truthy(page.redirect) /\ Truthy(page.token) /\ HasForm(page)

C17_Witness ==
    /\ pc = "gd_follow"
    /\ InspectedPage
    /\ FormBeatsToken(Findings(first[1].body))

\* C17 as stated: a token found in the page leads to the request with that
\* token, and the form request is sent only when neither a token nor a
\* redirect was found
C17_TokenBeforeForm ==
    /\ (first # None /\ first[1].cookie # None) =>
          \A k \in DOMAIN Gets :
              k > 1 => Gets[k] = ConfirmRequest(file_id[1], first[1].cookie[1])
    /\ InspectedPage => TokenFirst(Gets, Findings(first[1].body))

IsClient(c) == c.kind \in {"mega-get", "megadl", "mega.py"}

\* The starts of an encrypted-storage client, in order
Clients == SelectSeq(calls, IsClient)

\* The cloud-drive exchange sends at most two requests, and a run ends
\* with a written file or with an error, never with both
EndsOnce ==
    /\ Len(Gets) <= 2
    /\ pc = "downloaded" => (scratch # {} /\ error = NoError)
    /\ pc = "failed" => (scratch = {} /\ error.kind # "")

\* megadl is started a second time: for a folder-file link, after the run
\* on the link as given, on the link rewritten for megadl
SecondMegadl ==
    /\ Len(Clients) = 2
    /\ parse_mega_link(url) # None
    /\ parse_mega_link(url)[1].kind = "folder_file"
    /\ Clients[1] = Run("megadl", url)
    /\ Clients[2] = Run("megadl", mega_url_for_megatools(url).url)

Preferred(t) ==
    IF t.mega_get THEN "mega-get"
    ELSE IF t.megadl THEN "megadl"
    ELSE IF ~t.py313 THEN "mega.py"
    ELSE "none"

IsPip(c) == c.kind = "pip"

\* Every client that was started is the preferred one, and one was started
\* unless there is none to start
ByPreference(t) ==
    /\ \A k \in DOMAIN Clients : Clients[k].kind = Preferred(t)
    /\ (t.mega_get \/ t.megadl) => (Clients # <<>> /\ SelectSeq(calls, IsPip) = <<>>)
    /\ Preferred(t) = "none" => (calls = <<>> /\ pc = "failed" /\ error.kind = "runtime_incompatible")

\* With no command-line client on an older runtime: a library that is
\* there is used as it is; one that is not is installed with pip first,
\* and the download is given up only when that fails
LibraryOrInstall(t) ==
    Preferred(t) = "mega.py" =>
        CASE t.module = "present" -> calls = <<Run("mega.py", url)>>
          [] t.module = "installed" -> calls = <<Run("pip", "mega.py"), Run("mega.py", url)>>
          [] t.module = "failed" ->
                /\ calls = <<Run("pip", "mega.py")>>
                /\ pc = "failed"
                /\ error.kind = "module_install_failed"

\* megadl was started on the folder form of a folder-file link
Translated(k) ==
    /\ calls[k].kind = "megadl"
    /\ mega_url_for_megatools(url).folder_fallback
    /\ calls[k].url = mega_url_for_megatools(url).url

WarnedFirst ==
    \A k \in DOMAIN calls :
        Translated(k) =>
            \E w \in DOMAIN warnings :
                warnings[w].text = "whole_folder" /\ warnings[w].calls < k

\* C19 (amended): download_mega uses mega-get whenever it is there, megadl
\* only when mega-get is not, the library only when neither is and the
\* runtime is older than 3.13.  With neither command-line client on
\* runtime 3.13 or newer it raises without a transfer or an installation;
\* with neither on an older runtime and no library, it first runs pip to
\* install the library and raises only when that fails.  Whenever megadl
\* is run on the folder-translated URL of a folder-file link, the
\* entire-folder warning was printed before.
C19_ClientPreference ==
    /\ tools # None => (ByPreference(tools[1]) /\ LibraryOrInstall(tools[1]))
    /\ WarnedFirst

C19_Witness ==
    /\ tools # None
    /\ ~tools[1].mega_get
    /\ ~tools[1].megadl
    /\ ~tools[1].py313
    /\ tools[1].module = "installed"
    /\ pc = "downloaded"

\* C19 as stated: with no command-line client and no library, as on
\* runtime 3.13, there is a fatal error and neither a transfer nor an
\* installation is attempted
C19_NoInstallation ==
    /\ tools # None => ByPreference(tools[1])
    /\ WarnedFirst
    /\ (tools # None /\ ~tools[1].mega_get /\ ~tools[1].megadl
        /\ (tools[1].py313 \/ tools[1].module # "present")) =>
          (calls = <<>> /\ pc = "failed")

---------------------------------------------------------------------------
(* The file system: a function from paths to nodes.  A path is a sequence  *)
(* of names, the parent of every path of the domain is a directory.        *)

Dir == [type |-> "dir", data |-> ""]

File(data) == [type |-> "file", data |-> data]

IsPrefix(p, q) == Len(p) <= Len(q) /\ SubSeq(q, 1, Len(p)) = p

\* Path.exists, Path.is_dir, Path.is_file
exists(f, p) == p \in DOMAIN f

is_dir(f, p) == exists(f, p) /\ f[p].type = "dir"

is_file(f, p) == exists(f, p) /\ f[p].type = "file"

\* p and everything below it
Under(f, p) == {q \in DOMAIN f : IsPrefix(p, q)}

\* Path.iterdir: the names of the entries of directory p
iterdir(f, p) == {q[Len(q)] : q \in {x \in Under(f, p) : Len(x) = Len(p) + 1}}

\* The path q of the tree at src, seen from dst
Rebase(q, src, dst) == dst \o SubSeq(q, Len(src) + 1, Len(q))

\* shutil.rmtree(p), Path.unlink(p), and the end of a TemporaryDirectory
rmtree(f, p) == [q \in DOMAIN f \ Under(f, p) |-> f[q]]

\* Path.mkdir(p), tempfile.TemporaryDirectory at p
mkdir(f, p) == [q \in DOMAIN f \cup {p} |-> IF q = p THEN Dir ELSE f[q]]

\* shutil.move(src, dst) to a path that does not exist: the tree changes
\* its place
shutil_move(f, src, dst) ==
    [q \in (DOMAIN f \ Under(f, src)) \cup {Rebase(x, src, dst) : x \in Under(f, src)} |->
        IF IsPrefix(dst, q) THEN f[Rebase(q, dst, src)] ELSE f[q]]

\* shutil.copytree(src, dst, dirs_exist_ok=True), entry by entry.  A
\* directory of src whose place in dst is taken by a file cannot be made
\* (os.makedirs fails), and nothing below it is copied.
CopyBlocked(f, src, dst, q) ==
    \E k \in Len(src) + 1 .. Len(q) :
        /\ is_dir(f, SubSeq(q, 1, k))
        /\ is_file(f, Rebase(SubSeq(q, 1, k), src, dst))

\* shutil.copy2(q, place): onto a directory it copies into that directory,
\* under the name of the file
CopyTarget(f, src, dst, q) ==
    IF is_dir(f, Rebase(q, src, dst))
    THEN Append(Rebase(q, src, dst), q[Len(q)])
    ELSE Rebase(q, src, dst)

\* The entries of src that copytree copies, and those it reports as errors
CopyFails(f, src, dst, q) ==
    \/ CopyBlocked(f, src, dst, q)
    \/ is_file(f, q) /\ is_dir(f, CopyTarget(f, src, dst, q))

Copied(f, src, dst) == {q \in Under(f, src) : ~CopyFails(f, src, dst, q)}

CopyPlace(f, src, dst, q) ==
    IF is_file(f, q) THEN CopyTarget(f, src, dst, q) ELSE Rebase(q, src, dst)

CopySource(f, src, dst, p) ==
    CHOOSE q \in Copied(f, src, dst) : CopyPlace(f, src, dst, q) = p

copytree(f, src, dst) ==
    [fs |-> [p \in DOMAIN f \cup {CopyPlace(f, src, dst, q) : q \in Copied(f, src, dst)} |->
                IF \E q \in Copied(f, src, dst) : CopyPlace(f, src, dst, q) = p
                THEN f[CopySource(f, src, dst, p)]
                ELSE f[p]],
     ok |-> Copied(f, src, dst) = Under(f, src)]

\* What move_or_merge gives back: the file system afterwards, and either
\* the destination path or the error it raised
Placed(f, dest) == [fs |-> f, ok |-> TRUE, dest |-> dest, error |-> ""]

Raised(f, dest, why) == [fs |-> f, ok |-> FALSE, dest |-> dest, error |-> why]

MergeDirs(c, src, dest) ==
    IF c.ok THEN Placed(rmtree(c.fs, src), dest) ELSE Raised(c.fs, dest, "copy_failed")

\* dest.unlink() or shutil.rmtree(dest), then shutil.move(src, dest)
Overwrite(f, src, dest) == Placed(shutil_move(rmtree(f, dest), src, dest), dest)

\* A slip in the placement: the overwrite flag is not looked at.
MoveTo_Slip(f, src, dest, forced) ==
    IF ~exists(f, dest) THEN Placed(shutil_move(f, src, dest), dest)
    ELSE IF is_dir(f, src) /\ is_dir(f, dest) THEN MergeDirs(copytree(f, src, dest), src, dest)
    ELSE IF is_file(f, src) /\ is_file(f, dest) THEN Overwrite(f, src, dest)
    ELSE Raised(f, dest, "different_type")

MoveTo(f, src, dest, forced) ==
    IF ~exists(f, dest) THEN Placed(shutil_move(f, src, dest), dest)
    ELSE IF is_dir(f, src) /\ is_dir(f, dest) THEN MergeDirs(copytree(f, src, dest), src, dest)
    ELSE IF is_file(f, src) /\ is_file(f, dest) THEN Overwrite(f, src, dest)
    ELSE IF forced THEN Overwrite(f, src, dest)
    ELSE Raised(f, dest, "different_type")

move_or_merge(f, src, dest_root, forced) ==
    MoveTo(f, src, Append(dest_root, src[Len(src)]), forced)

---------------------------------------------------------------------------
(* main and process_downloads                                              *)

modules_dir == <<"modules">>

\* tempfile.TemporaryDirectory(prefix="foundry_download_") and
\* tempfile.TemporaryDirectory(prefix="foundry_extract_")
tmp_path == <<"foundry_download_">>

extract_dir == <<"foundry_extract_">>

ARCHIVE_TAR_EXTS == {".tar", ".tar.gz", ".tgz", ".tar.bz2", ".tbz", ".tbz2", ".tar.xz", ".txz"}

ARCHIVE_7Z_EXTS == {".7z", ".rar"}

\* detect_archive once name = path.name.lower() is known
ArchiveKind(name) ==
    IF EndsWith(name, ".zip") THEN Some("zip")
    ELSE IF \E e \in ARCHIVE_TAR_EXTS : EndsWith(name, e) THEN Some("tar")
    ELSE IF \E e \in ARCHIVE_7Z_EXTS : EndsWith(name, e) THEN Some("7z")
    ELSE None

detect_archive(name) == ArchiveKind(Lower(name))

\* A tree to be put somewhere: pairs of a relative path and a node
Tree(name, node) == {<<<<name>>, node>>}

Put(f, root, nodes) ==
    [p \in DOMAIN f \cup {root \o n[1] : n \in nodes} |->
        IF \E n \in nodes : root \o n[1] = p
        THEN (CHOOSE n \in nodes : root \o n[1] = p)[2]
        ELSE f[p]]

\* The orders in which iterdir may list a set of names
Orders(S) == {o \in [1 .. Cardinality(S) -> S] : \A x \in S : \E i \in DOMAIN o : o[i] = x}

\* What a file holds: the bytes of an archive, a page, nothing
ZipBytes == "PK.."

PageBytes == "<!DOCTYPE html><html><body>Sign in</body></html>"

TagBytes == "<html><head><title>Quota exceeded</title>"

Contents == {ZipBytes, PageBytes, TagBytes, ""}

FileNames == {"mod.zip", "Mod.TGZ", "mod.rar", "a7"}

\* The top-level entries a module archive or a folder holds
ModuleTree == Tree("mod", Dir) \cup {<<<<"mod", "module.json">>, File("new")>>}

EntrySets ==
    {ModuleTree, Tree("mod", File("new")), Tree("mod", Dir),
     ModuleTree \cup Tree("notes.txt", File(""))}

\* What modules_dir holds before the run
DestTrees == {{}, ModuleTree, Tree("mod", File("old")), Tree("notes.txt", Dir)}

MaxUrls == 2

Services == {"gdrive", "dropbox", "mega", "telegram"}

\* download_url as a whole: it raises, or it leaves files in tmp_path and
\* returns their paths.  write_stream_to_file writes the body it is given
\* under the name it is given; download_mega returns whatever its client
\* left behind, provided there is at least one entry; download_telegram
\* returns the one path download_media gave it.
Failed(why) == [ok |-> FALSE, nodes |-> {}, error |-> why]

Got(nodes) == [ok |-> TRUE, nodes |-> nodes, error |-> ""]

write_stream_to_file == {Got(Tree(n, File(d))) : n \in FileNames, d \in Contents}

\* A folder whose name ends like an archive
PackTree == Tree("pack.zip", Dir) \cup {<<<<"pack.zip", "module.json">>, File("new")>>}

download_mega == {Got(e) : e \in EntrySets \cup {PackTree}} \cup {Failed("empty_result")}

download_telegram ==
    {Got(Tree(n, File(d))) : n \in {"mod.zip"}, d \in Contents} \cup {Failed("empty_result")}

download_url(svc) ==
    {Failed("download_failed")} \cup
    (CASE svc \in {"gdrive", "dropbox"} -> write_stream_to_file
       [] svc = "mega" -> download_mega
       [] svc = "telegram" -> download_telegram)

\* What the extraction tools make of a file: (whether the tool ended well,
\* the entries it left in dest_dir).  Only the bytes of an archive unpack;
\* tar takes a file of no bytes for an archive of no entries.
ToolRuns(data) ==
    {<<FALSE, {}>>} \cup
    (IF data = ZipBytes THEN {<<TRUE, e>> : e \in EntrySets \cup {{}}} \cup {<<FALSE, ModuleTree>>}
     ELSE IF data = "" THEN {<<TRUE, {}>>}
     ELSE {})

\* extract_archive(archive_path, dest_dir) for the tool run it met
extract_archive(f, tool) ==
    IF ~tool[1] THEN Raised(Put(mkdir(f, extract_dir), extract_dir, tool[2]), extract_dir,
                            "process_failed")
    ELSE IF tool[2] = {} THEN Raised(mkdir(f, extract_dir), extract_dir, "no_files")
    ELSE Placed(Put(mkdir(f, extract_dir), extract_dir, tool[2]), extract_dir)

InitMain ==
    /\ url = ""
    /\ link \in [dest : DestTrees]
    /\ pc = "main"
    /\ debug_dir = FALSE
    /\ telegram = FALSE
    /\ Fresh
    /\ force \in BOOLEAN
    /\ fs = Put(mkdir(<<>>, modules_dir), modules_dir, link.dest)
    /\ todo \in 1 .. MaxUrls
    /\ downloaded = <<>>
    /\ extracted = <<>>
    /\ moved = <<>>
    /\ all_moved = <<>>
    /\ owned = <<>>
    /\ printed = <<>>

\* What main and process_downloads leave alone
dlVars == <<url, link, fn, out, out2, debug_dir, telegram, file_id, calls, response,
            warnings, scratch, captured, first, tools, force>>

\* A slip in the way out: only the download directory is removed.
Crash_Slip(f, why) ==
    /\ pc' = "crashed"
    /\ error' = Err(why)
    /\ fs' = rmtree(f, tmp_path)

\* An exception leaves main: both TemporaryDirectory blocks end on the way
Crash(f, why) ==
    /\ pc' = "crashed"
    /\ error' = Err(why)
    /\ fs' = rmtree(rmtree(f, extract_dir), tmp_path)

\* for url in args.url: with tempfile.TemporaryDirectory(...) as tmp_dir
MainNextUrl ==
    /\ pc = "main"
    /\ todo > 0
    /\ pc' = "download"
    /\ todo' = todo - 1
    /\ fs' = mkdir(fs, tmp_path)
    /\ UNCHANGED <<service, error, downloaded, extracted, moved, all_moved, owned, printed>>
    /\ UNCHANGED dlVars

\* downloaded = download_url(url, tmp_path, ...)
MainDownload ==
    /\ pc = "download"
    /\ \E svc \in Services : \E got \in download_url(svc) :
          /\ service' = svc
          /\ IF got.ok
             THEN /\ pc' = "process"
                  /\ error' = error
                  /\ fs' = Put(fs, tmp_path, got.nodes)
                  /\ downloaded' \in Orders({n[1][1] : n \in {x \in got.nodes : Len(x[1]) = 1}})
             ELSE Crash(fs, got.error) /\ downloaded' = downloaded
    /\ UNCHANGED <<todo, extracted, moved, all_moved, owned, printed>>
    /\ UNCHANGED dlVars

\* moved.append(move_or_merge(item, modules_dir, force))
MoveItem(r) ==
    IF r.ok
    THEN /\ pc' = "process"
         /\ error' = error
         /\ fs' = r.fs
         /\ moved' = Append(moved, r.dest)
         /\ downloaded' = Tail(downloaded)
         /\ extracted' = extracted
    ELSE Crash(r.fs, r.error) /\ UNCHANGED <<moved, downloaded, extracted>>

\* with tempfile.TemporaryDirectory(...) as extract_tmp: extract_archive(...)
\* and extracted_items = list(extract_dir.iterdir())
Extract(r) ==
    IF r.ok
    THEN /\ pc' = "place"
         /\ error' = error
         /\ fs' = r.fs
         /\ extracted' \in Orders(iterdir(r.fs, extract_dir))
         /\ UNCHANGED <<moved, downloaded>>
    ELSE Crash(r.fs, r.error) /\ UNCHANGED <<moved, downloaded, extracted>>

\* A slip in process_downloads: the suffix of the name is not looked at.
ProcessItem_Slip ==
    /\ pc = "process"
    /\ downloaded # <<>>
    /\ MoveItem(move_or_merge(fs, Append(tmp_path, Head(downloaded)), modules_dir, force))
    /\ UNCHANGED <<service, todo, all_moved, owned, printed>>
    /\ UNCHANGED dlVars

\* One turn of the loop of process_downloads, up to the extraction
ProcessItem ==
    /\ pc = "process"
    /\ downloaded # <<>>
    /\ IF is_dir(fs, Append(tmp_path, Head(downloaded)))
          \/ detect_archive(Head(downloaded)) = None
       THEN MoveItem(move_or_merge(fs, Append(tmp_path, Head(downloaded)), modules_dir, force))
       ELSE \E tool \in ToolRuns(fs[Append(tmp_path, Head(downloaded))].data) :
               Extract(extract_archive(fs, tool))
    /\ UNCHANGED <<service, todo, all_moved, owned, printed>>
    /\ UNCHANGED dlVars

\* for extracted in extracted_items: moved.append(move_or_merge(...)), and
\* the end of the TemporaryDirectory block after the last one
PlaceEntry(r) ==
    IF r.ok
    THEN /\ error' = error
         /\ moved' = Append(moved, r.dest)
         /\ extracted' = Tail(extracted)
         /\ IF Tail(extracted) = <<>>
            THEN /\ pc' = "process"
                 /\ fs' = rmtree(r.fs, extract_dir)
                 /\ downloaded' = Tail(downloaded)
            ELSE /\ pc' = "place"
                 /\ fs' = r.fs
                 /\ downloaded' = downloaded
    ELSE Crash(r.fs, r.error) /\ UNCHANGED <<moved, downloaded, extracted>>

PlaceExtracted ==
    /\ pc = "place"
    /\ PlaceEntry(move_or_merge(fs, Append(extract_dir, Head(extracted)), modules_dir, force))
    /\ UNCHANGED <<service, todo, all_moved, owned, printed>>
    /\ UNCHANGED dlVars

\* return moved; all_moved.extend(moved); the end of the TemporaryDirectory
\* block of main
ProcessReturn ==
    /\ pc = "process"
    /\ downloaded = <<>>
    /\ pc' = "main"
    /\ all_moved' = all_moved \o moved
    /\ moved' = <<>>
    /\ service' = ""
    /\ fs' = rmtree(fs, tmp_path)
    /\ UNCHANGED <<error, todo, downloaded, extracted, owned, printed>>
    /\ UNCHANGED dlVars

\* A slip at the end of main: the paths are printed, chown_paths is not
\* called.
MainFinish_Slip ==
    /\ pc = "main"
    /\ todo = 0
    /\ pc' = "done"
    /\ printed' = IF all_moved # <<>> THEN printed \o all_moved
                  ELSE Append(printed, "Nothing installed.")
    /\ UNCHANGED <<service, error, fs, todo, downloaded, extracted, moved, all_moved, owned>>
    /\ UNCHANGED dlVars

\* if all_moved: ... else: print("Nothing installed.")
MainFinish ==
    /\ pc = "main"
    /\ todo = 0
    /\ IF all_moved # <<>> THEN pc' = "chown" /\ printed' = printed
       ELSE pc' = "done" /\ printed' = Append(printed, "Nothing installed.")
    /\ UNCHANGED <<service, error, fs, todo, downloaded, extracted, moved, all_moved, owned>>
    /\ UNCHANGED dlVars

\* chown_paths: run(["chown", "-R", owner, str(path)]) for the next path
ChownPath ==
    /\ pc = "chown"
    /\ Len(owned) < Len(all_moved)
    /\ \E ok \in BOOLEAN :
          IF ok THEN /\ owned' = Append(owned, all_moved[Len(owned) + 1])
                     /\ pc' = pc
                     /\ error' = error
          ELSE pc' = "crashed" /\ error' = Err("process_failed") /\ owned' = owned
    /\ UNCHANGED <<service, fs, todo, downloaded, extracted, moved, all_moved, printed>>
    /\ UNCHANGED dlVars

\* for path in all_moved: print(f"Installed: {path}"); return 0
PrintInstalled ==
    /\ pc = "chown"
    /\ Len(owned) = Len(all_moved)
    /\ pc' = "done"
    /\ printed' = printed \o all_moved
    /\ UNCHANGED <<service, error, fs, todo, downloaded, extracted, moved, all_moved, owned>>
    /\ UNCHANGED dlVars

NextMain ==
    \/ MainNextUrl
    \/ MainDownload
    \/ ProcessItem
    \/ PlaceExtracted
    \/ ProcessReturn
    \/ MainFinish
    \/ ChownPath
    \/ PrintInstalled

SpecMain == InitMain /\ [][NextMain]_vars

---------------------------------------------------------------------------
(* Claims about main, checked under SpecMain                               *)

\* is_probably_html_file(path): the name ends in .htm or .html, or the
\* first 512 bytes hold, in any letter case, a doctype or an <html tag
HeadBytes(data) == IF Len(data) > 512 THEN SubSeq(data, 1, 512) ELSE data

is_probably_html_file(name, data) ==
    \/ EndsWith(Lower(name), ".htm")
    \/ EndsWith(Lower(name), ".html")
    \/ Contains(Lower(HeadBytes(data)), "<!doctype html")
    \/ Contains(Lower(HeadBytes(data)), "<html")

\* The paths of modules_dir, the directory itself left out
InModules == {p \in DOMAIN fs : IsPrefix(modules_dir, p) /\ p # modules_dir}

\* C11: a downloaded file whose content begins with an HTML doctype or an
\* <html tag is rejected by the post-receipt validator before extraction
\* and placement: no such page is ever a file of the destination directory.
C11_NoHtmlPlaced ==
    \A p \in InModules : is_file(fs, p) => ~is_probably_html_file(p[Len(p)], fs[p].data)

\* A file of no bytes, or a directory of no entries
Empty(f, p) ==
    \/ is_file(f, p) /\ f[p].data = ""
    \/ is_dir(f, p) /\ iterdir(f, p) = {}

\* C12: a retrieved item is never empty: a download that produced a
\* zero-byte file or an empty directory ends in a failure, so no item that
\* download_url returned is empty, and none is moved into the destination.
C12_NeverEmpty ==
    /\ \A i \in DOMAIN downloaded :
          exists(fs, Append(tmp_path, downloaded[i]))
              => ~Empty(fs, Append(tmp_path, downloaded[i]))
    /\ (pc = "process" /\ extracted = <<>>) =>
          \A i \in DOMAIN moved : ~Empty(fs, moved[i])

Range(q) == {q[i] : i \in DOMAIN q}

\* The destination paths move_or_merge has returned in this run: those of
\* the URLs that are done, and those of the URL under work
PlacedPaths == Range(all_moved) \cup Range(moved)

\* Ownership goes to placed paths only, and a path is printed only after
\* chown_paths has gone through all of them
OwnedAfterPlaced ==
    /\ \A i \in DOMAIN owned : owned[i] \in PlacedPaths /\ exists(fs, owned[i])
    /\ \A i \in DOMAIN printed :
          printed[i] # "Nothing installed." => printed[i] \in Range(owned)

TopNames(t) == {n[1][1] : n \in {x \in t : Len(x[1]) = 1}}

\* C20: process_downloads extracts a file whose name has an archive suffix
\* into a scratch directory and places each top-level extracted entry,
\* never the archive itself; an archive of no entries fails with nothing
\* placed; another file, or a directory, is placed as it is; the list holds
\* one destination path for each placed entry, and when placing an entry
\* fails the entries placed before it remain in the destination.
C20_ProcessDownloads ==
    /\ \A i \in DOMAIN moved :
          /\ Len(moved[i]) = 2
          /\ IsPrefix(modules_dir, moved[i])
          /\ exists(fs, moved[i])
    /\ iterdir(fs, modules_dir) = TopNames(link.dest) \cup {p[2] : p \in PlacedPaths}
    /\ \A n \in iterdir(fs, modules_dir) :
          is_file(fs, Append(modules_dir, n)) => detect_archive(n) = None
    /\ pc = "place" =>
          /\ is_file(fs, Append(tmp_path, Head(downloaded)))
          /\ detect_archive(Head(downloaded)) # None
          /\ extracted # <<>>
          /\ iterdir(fs, extract_dir) = Range(extracted)
    /\ error.kind = "no_files" => (pc = "crashed" /\ extracted = <<>>)

C20_Witness ==
    /\ pc = "crashed"
    /\ error.kind = "different_type"
    /\ Len(moved) = 1
    /\ Len(extracted) = 1
    /\ is_dir(fs, moved[1])

---------------------------------------------------------------------------
(* move_or_merge alone: one call, on a source entry m of the scratch       *)
(* directory and a destination directory that may hold an entry m          *)

MaxNodes == 4

Names == {"a", "b"}

\* The trees with one node more than the tree t: an entry is added to one
\* of its directories
Grown(t, data) ==
    {t \cup {c} : c \in {n \in {<<Append(x[1], a), node>> :
                                   x \in {y \in t : y[2] = Dir}, a \in Names,
                                   node \in {Dir, File(data)}} :
                            \A y \in t : y[1] # n[1]}}

RECURSIVE TreesUpTo(_, _)
TreesUpTo(n, data) ==
    IF n <= 1 THEN {Tree("m", Dir), Tree("m", File(data))}
    ELSE TreesUpTo(n - 1, data) \cup UNION {Grown(t, data) : t \in TreesUpTo(n - 1, data)}

PlaceCases == [src : TreesUpTo(MaxNodes, "new"), dest : TreesUpTo(MaxNodes, "old") \cup {{}}]

\* The file system a case stands for
Before(c) ==
    Put(Put(mkdir(mkdir(<<>>, tmp_path), modules_dir), tmp_path, c.src), modules_dir, c.dest)

InitPlace ==
    /\ link \in PlaceCases
    /\ url = ""
    /\ pc = "place_call"
    /\ debug_dir = FALSE
    /\ telegram = FALSE
    /\ Fresh
    /\ force \in BOOLEAN
    /\ fs = Before(link)
    /\ todo = 0
    /\ downloaded = <<>>
    /\ extracted = <<>>
    /\ moved = <<>>
    /\ all_moved = <<>>
    /\ owned = <<>>
    /\ printed = <<>>

Return(r) ==
    /\ fs' = r.fs
    /\ pc' = IF r.ok THEN "placed" ELSE "place_failed"
    /\ error' = IF r.ok THEN error ELSE Err(r.error)
    /\ moved' = IF r.ok THEN Append(moved, r.dest) ELSE moved

MoveOrMerge ==
    /\ pc = "place_call"
    /\ Return(move_or_merge(fs, Append(tmp_path, "m"), modules_dir, force))
    /\ UNCHANGED <<service, todo, downloaded, extracted, all_moved, owned, printed>>
    /\ UNCHANGED dlVars

NextPlace == MoveOrMerge

SpecPlace == InitPlace /\ [][NextPlace]_vars

---------------------------------------------------------------------------
(* Claims about move_or_merge, checked under SpecPlace                     *)

\* The node a tree has at a relative path
NodeAt(t, rel) == (CHOOSE n \in t : n[1] = rel)[2]

Has(t, rel) == \E n \in t : n[1] = rel

\* The source and the destination entry m are of different types
TypeConflict(c) == c.dest # {} /\ NodeAt(c.src, <<"m">>).type # NodeAt(c.dest, <<"m">>).type

\* The tree below root is exactly the tree t
HoldsTree(f, root, t) ==
    /\ \A n \in t : exists(f, root \o n[1]) /\ f[root \o n[1]] = n[2]
    /\ \A p \in Under(f, Append(root, "m")) : Has(t, Rebase(p, root, <<>>))

\* C13: move_or_merge of a source whose name exists in the destination with
\* a different type: without the overwrite flag it fails with the
\* placement-conflict error and source and destination entry are as before;
\* with the flag it succeeds, the destination entry has the type and the
\* content of the source, and the source is no longer under its path.
C13_TypeConflict ==
    (pc # "place_call" /\ TypeConflict(link)) =>
        IF force
        THEN /\ pc = "placed"
             /\ moved = <<Append(modules_dir, "m")>>
             /\ HoldsTree(fs, modules_dir, link.src)
             /\ ~exists(fs, Append(tmp_path, "m"))
        ELSE /\ pc = "place_failed"
             /\ error.kind = "different_type"
             /\ fs = Before(link)

C13_Witness ==
    /\ pc = "placed"
    /\ force
    /\ TypeConflict(link)
    /\ is_dir(fs, <<"modules", "m">>)
    /\ exists(fs, <<"modules", "m", "a", "b">>)
    /\ Has(link.dest, <<"m">>)

\* Source and destination entry m are both directories
BothDirs(c) ==
    c.dest # {} /\ NodeAt(c.src, <<"m">>).type = "dir" /\ NodeAt(c.dest, <<"m">>).type = "dir"

\* C14: move_or_merge of a source directory onto a same-named destination
\* directory merges without data loss, with and without the overwrite flag
\* and at every depth, also when a nested name is a file on one side and a
\* directory on the other: every entry that was in the destination and is
\* not in the source is still there and unchanged, every entry of the
\* source is in the destination, and the source directory is gone.
C14_MergeKeepsAll ==
    (pc # "place_call" /\ BothDirs(link)) =>
        /\ pc = "placed"
        /\ \A n \in link.dest :
              ~Has(link.src, n[1]) =>
                  exists(fs, modules_dir \o n[1]) /\ fs[modules_dir \o n[1]] = n[2]
        /\ \A n \in link.src : exists(fs, modules_dir \o n[1]) /\ fs[modules_dir \o n[1]] = n[2]
        /\ ~exists(fs, Append(tmp_path, "m"))

====
